---- MODULE Spec2Model ----
(***************************************************************************)
(* Model of the cross-critic orchestration core: the N-party fan-out       *)
(* caller MultiModelReviewer (src/core/multi_model.py) and its keyword     *)
(* consensus scorer.                                                       *)
(*                                                                         *)
(* Conventions                                                             *)
(*   - An Optional value (Python None / value) is a sequence of length 0   *)
(*     or 1: None == <<>>, Some(x) == <<x>>.                               *)
(*   - A text is the sequence of its Unicode code points, so that          *)
(*     str.lower() and the substring test `in` are computed, not assumed.  *)
(*   - An error message is the sequence of the string pieces its f-string  *)
(*     concatenates.                                                       *)
(*   - A float that is the quotient of two small integers is the reduced   *)
(*     fraction <<num, den>>.                                              *)
(***************************************************************************)
EXTENDS Integers, Sequences, FiniteSets, TLC

VARIABLES
    pc,               \* position of the caller thread of MultiModelReviewer
    clients,          \* argument / self.clients: sequence of client names
    self_timeout,     \* self.timeout
    timeout,          \* local `timeout` of review()
    reviews,          \* local list `reviews` of review()
    errors,           \* local list `errors` of review()
    calls,            \* calls[i]: None while client i's call runs, Some(what it did) after
    futures,          \* futures[i]: None while call_model(i) runs, Some(outcome) when done
    cur,              \* index of the future the for-loop is waiting on
    timedOutAt,       \* history: index whose wait expired (0: none)
    doneAtTimeout,    \* history: tasks already finished when the wait expired
    reverseOrder,     \* history: the tasks so far finished in reverse submission order
    result,           \* the MultiModelReviewResult returned by review()
    sc_pc,            \* scorer harness: "input" or "scored"
    sc_reviews,       \* scorer harness: argument `reviews` of _calculate_consensus
    sc_score,         \* scorer harness: value returned by _calculate_consensus
    sc_common,        \* scorer harness: value returned by _extract_common_keywords
    p_pc,             \* position of the caller thread of ParallelReviewer.review
    p_self_timeout,   \* ParallelReviewer.timeout
    p_timeout,        \* local `timeout` of ParallelReviewer.review
    gpt_future,       \* None while the GPT call runs, Some(what it did) when done
    claude_future,    \* None while the Claude call runs, Some(what it did) when done
    gpt_review,       \* local `gpt_review`
    claude_review,    \* local `claude_review`
    gpt_error,        \* local `gpt_error`
    claude_error,     \* local `claude_error`
    p_result,         \* the ParallelReviewResult returned by review()
    d_pc,             \* debate: "new" (no session yet) or "session"
    d_origin,         \* history: "start" if the session came from start(), "given" if the caller built it
    rounds,           \* DebateResult.rounds of the session
    d_last,           \* outcome of the last DebateEngine call
    d_calls,          \* history: number of reviewer.review invocations so far
    d_history,        \* local `history` of the last accepted continue_debate
    d_focus,          \* argument `user_focus` of the last accepted continue_debate
    d_prompt,         \* local `prompt` of the last accepted continue_debate
    d_review,         \* local `parallel_result` of the last start / continue_debate
    l_file,           \* the file at LoopManager.state_path: None, or Some(its content)
    l_state,          \* the LoopState object the caller holds (None: not yet any)
    l_saved,          \* history: the state written by the last save, while its file stands
    l_last,           \* the last LoopManager call, or the exception it raised
    l_prev,           \* history: the value of l_last before the last call
    c_file,           \* the debate session file: None, or Some(its content)
    c_session,        \* DebateResult.rounds the last debate command held (None: none)
    c_last,           \* the last debate command, "exit 1", or the exception it raised
    k_auto_mode,      \* CheckpointManager.auto_mode
    k_history,        \* CheckpointManager.history: the CheckpointResults, oldest first
    k_prompts,        \* history: how many times the input handler was invoked
    k_last,           \* history: the last call on the manager and its outcome (None: none)
    w_pc,             \* WorkflowEngine: "new", "running" (inside run), "returned", "raised"
    w_state,          \* WorkflowEngine.state: the WorkflowState
    w_file,           \* the project's .cross_critic_state.json: None, or Some(its content)
    w_trace,          \* history: the checkpoints run and critic calls made by this engine
    w_last,           \* history: the entry point used, the exception raised, interrupted or not
    m_pc,             \* ModelClient.call: "ready", "calling" (in the retry loop), "returned", "raised"
    m_client,         \* the client: its class, timeout and max_retries
    m_runs,           \* history: what each subprocess.run of the call did, in order
    m_last_error,     \* call's local last_error: None, or Some(error)
    m_outcome,        \* what the call returned or raised (None: neither yet)
    h_files,          \* the session files of .cross-critic/history: session id -> content
    h_index,          \* index.json: None, or Some(its content)
    h_latest,         \* history: session id -> the record of its most recent save
    h_last,           \* history: the last HistoryManager call and what it returned
    t_pc,             \* timeout harness: "input" or "computed"
    t_per_call,       \* timeout harness: self.timeout of the reviewer
    t_parallel,       \* timeout harness: argument `parallel_timeout` of review()
    t_effective       \* timeout harness: local `timeout` of review() (None: not yet computed)

fanoutVars == <<pc, clients, self_timeout, timeout, reviews, errors, calls, futures,
                cur, timedOutAt, doneAtTimeout, reverseOrder, result>>
scorerVars == <<sc_pc, sc_reviews, sc_score, sc_common>>
pairVars == <<p_pc, p_self_timeout, p_timeout, gpt_future, claude_future, gpt_review,
              claude_review, gpt_error, claude_error, p_result>>
debateVars == <<d_pc, d_origin, rounds, d_last, d_calls, d_history, d_focus, d_prompt, d_review>>
loopVars == <<l_file, l_state, l_saved, l_last, l_prev>>
cliVars == <<c_file, c_session, c_last>>
checkpointVars == <<k_auto_mode, k_history, k_prompts, k_last>>
workflowVars == <<w_pc, w_state, w_file, w_trace, w_last>>
clientVars == <<m_pc, m_client, m_runs, m_last_error, m_outcome>>
historyVars == <<h_files, h_index, h_latest, h_last>>
timeoutVars == <<t_pc, t_per_call, t_parallel, t_effective>>
vars == <<fanoutVars, scorerVars, pairVars, debateVars, loopVars, cliVars, checkpointVars, workflowVars, clientVars, historyVars, timeoutVars>>

\* What the actions of one component leave alone.
notFanoutVars == <<scorerVars, pairVars, debateVars, loopVars, cliVars, checkpointVars, workflowVars, clientVars, historyVars, timeoutVars>>
notScorerVars == <<fanoutVars, pairVars, debateVars, loopVars, cliVars, checkpointVars, workflowVars, clientVars, historyVars, timeoutVars>>
notPairVars == <<fanoutVars, scorerVars, debateVars, loopVars, cliVars, checkpointVars, workflowVars, clientVars, historyVars, timeoutVars>>
notDebateVars == <<fanoutVars, scorerVars, pairVars, loopVars, cliVars, checkpointVars, workflowVars, clientVars, historyVars, timeoutVars>>
notLoopVars == <<fanoutVars, scorerVars, pairVars, debateVars, cliVars, checkpointVars, workflowVars, clientVars, historyVars, timeoutVars>>
notCliVars == <<fanoutVars, scorerVars, pairVars, debateVars, loopVars, checkpointVars, workflowVars, clientVars, historyVars, timeoutVars>>
notCheckpointVars == <<fanoutVars, scorerVars, pairVars, debateVars, loopVars, cliVars, workflowVars, clientVars, historyVars, timeoutVars>>
notWorkflowVars == <<fanoutVars, scorerVars, pairVars, debateVars, loopVars, cliVars, checkpointVars, clientVars, historyVars, timeoutVars>>
notClientVars == <<fanoutVars, scorerVars, pairVars, debateVars, loopVars, cliVars, checkpointVars, workflowVars, historyVars, timeoutVars>>
notHistoryVars == <<fanoutVars, scorerVars, pairVars, debateVars, loopVars, cliVars, checkpointVars, workflowVars, clientVars, timeoutVars>>
notTimeoutVars == <<fanoutVars, scorerVars, pairVars, debateVars, loopVars, cliVars, checkpointVars, workflowVars, clientVars, historyVars>>
notWorkflowNorCheckpointVars == <<fanoutVars, scorerVars, pairVars, debateVars, loopVars, cliVars, clientVars, historyVars, timeoutVars>>

-----------------------------------------------------------------------------
(* Bounds *)

MaxClients == 3        \* largest batch of reviewers
MaxScored == 4         \* longest list handed to the scorer harness
MaxPerCall == 30       \* largest per-call timeout handed to the timeout harness
MaxOverride == 4       \* largest aggregate timeout handed to the timeout harness

-----------------------------------------------------------------------------
(* Optional values *)

None == <<>>
Some(x) == <<x>>

-----------------------------------------------------------------------------
(* Texts *)

T_security == <<115, 101, 99, 117, 114, 105, 116, 121>>
    \* "security"
T_boan == <<48372, 50504>>
    \* U+BCF4 U+C548, the Korean word for security
T_SecuritySlow == <<83, 101, 99, 117, 114, 105, 116, 121, 32, 115, 108, 111, 119>>
    \* "Security slow"
T_authorBug == <<97, 117, 116, 104, 111, 114, 32, 98, 117, 103>>
    \* "author bug"
T_ok == <<111, 107>>
    \* "ok"
T_slow == <<115, 108, 111, 119>>
    \* "slow"
T_securityBoan == <<115, 101, 99, 117, 114, 105, 116, 121, 32, 48372, 50504>>
    \* "security " followed by U+BCF4 U+C548

\* Response texts a reviewer call may return in the fan-out model.
CallTexts == {T_security, T_boan, T_ok}

\* Response texts handed to the scorer harness.
ScorerTexts ==
    {T_security, T_boan, T_SecuritySlow, T_authorBug, T_ok, T_slow, T_securityBoan}

\* Messages of the exceptions a reviewer call may raise.
ExcMessages == {<<"Mock failure">>, <<"OpenCode timed out after 300s">>}

\* Names of the clients, by position.
ClientNames == <<"model-1", "model-2", "model-3", "model-4", "model-5">>

\* Values of self.timeout and of the parallel_timeout argument.
SelfTimeouts == {1, 300}
ParallelTimeouts == {None, Some(0), Some(7)}

-----------------------------------------------------------------------------
(* MultiModelReviewer.CONSENSUS_KEYWORDS, in source order; the entries     *)
(* outside ASCII are the Korean keywords, given by code point.             *)

CONSENSUS_KEYWORDS ==
  <<
    <<115, 101, 99, 117, 114, 105, 116, 121>>,   \* security
    <<118, 117, 108, 110, 101, 114, 97, 98, 105, 108, 105, 116, 121>>,   \* vulnerability
    <<105, 110, 106, 101, 99, 116, 105, 111, 110>>,   \* injection
    <<120, 115, 115>>,   \* xss
    <<99, 115, 114, 102>>,   \* csrf
    <<97, 117, 116, 104>>,   \* auth
    <<48372, 50504>>,   \* U+BCF4 U+C548
    <<52712, 50557, 51216>>,   \* U+CDE8 U+C57D U+C810
    <<51064, 51613>>,   \* U+C778 U+C99D
    <<112, 101, 114, 102, 111, 114, 109, 97, 110, 99, 101>>,   \* performance
    <<115, 108, 111, 119>>,   \* slow
    <<109, 101, 109, 111, 114, 121>>,   \* memory
    <<99, 112, 117>>,   \* cpu
    <<111, 112, 116, 105, 109, 105, 122, 97, 116, 105, 111, 110>>,   \* optimization
    <<49457, 45733>>,   \* U+C131 U+B2A5
    <<52572, 51201, 54868>>,   \* U+CD5C U+C801 U+D654
    <<47700, 47784, 47532>>,   \* U+BA54 U+BAA8 U+B9AC
    <<101, 114, 114, 111, 114>>,   \* error
    <<101, 120, 99, 101, 112, 116, 105, 111, 110>>,   \* exception
    <<98, 117, 103>>,   \* bug
    <<102, 105, 120>>,   \* fix
    <<50640, 47084>>,   \* U+C5D0 U+B7EC
    <<48260, 44536>>,   \* U+BC84 U+ADF8
    <<50724, 47448>>,   \* U+C624 U+B958
    <<97, 114, 99, 104, 105, 116, 101, 99, 116, 117, 114, 101>>,   \* architecture
    <<100, 101, 115, 105, 103, 110>>,   \* design
    <<112, 97, 116, 116, 101, 114, 110>>,   \* pattern
    <<115, 116, 114, 117, 99, 116, 117, 114, 101>>,   \* structure
    <<50500, 53412, 53581, 52376>>,   \* U+C544 U+D0A4 U+D14D U+CC98
    <<49444, 44228>>,   \* U+C124 U+ACC4
    <<54056, 53556>>,   \* U+D328 U+D134
    <<44396, 51312>>,   \* U+AD6C U+C870
    <<110, 97, 109, 105, 110, 103>>,   \* naming
    <<99, 111, 110, 118, 101, 110, 116, 105, 111, 110>>,   \* convention
    <<102, 111, 114, 109, 97, 116>>,   \* format
    <<115, 116, 121, 108, 101>>,   \* style
    <<114, 101, 97, 100, 97, 98, 108, 101>>,   \* readable
    <<45348, 51060, 48141>>,   \* U+B124 U+C774 U+BC0D
    <<52968, 48292, 49496>>,   \* U+CEE8 U+BCA4 U+C158
    <<44032, 46021, 49457>>,   \* U+AC00 U+B3C5 U+C131
    <<49828, 53440, 51068>>   \* U+C2A4 U+D0C0 U+C77C
  >>

-----------------------------------------------------------------------------
(* Text primitives *)

\* str.lower() on one character: ASCII capitals fold, Hangul has no case.
LowerChar(c) == IF c \in 65..90 THEN c + 32 ELSE c

\* str.lower()
Lower(text) == [i \in 1..Len(text) |-> LowerChar(text[i])]

\* The test `needle in hay` on strings.
Contains(needle, hay) ==
    \E i \in 0..(Len(hay) - Len(needle)) :
        SubSeq(hay, i + 1, i + Len(needle)) = needle

\* str(n) for the f-string of the timeout marker.
Str(n) == ToString(n)

-----------------------------------------------------------------------------
(* Floats that are quotients of small integers *)

RECURSIVE Gcd(_, _)
Gcd(a, b) == IF b = 0 THEN a ELSE Gcd(b, a % b)

\* The float n / d, as a reduced fraction.
Div(n, d) == LET g == Gcd(n, d) IN <<n \div g, d \div g>>

Float0 == <<0, 1>>
Float1 == <<1, 1>>

\* n > f for an integer n and a float f.
IntGt(n, f) == n * f[2] > f[1]

-----------------------------------------------------------------------------
(* ModelResponse and the outcome of client.call *)

ModelResponse(content, model) == [content |-> content, model |-> model]

\* What one client.call does: return a text or raise an exception.
CallBehaviours ==
    [kind : {"return"}, content : CallTexts, message : {<<>>}]
    \cup [kind : {"raise"}, content : {<<>>}, message : ExcMessages]

\* client.call(prompt, context) of the client named `name`.
ClientCall(name, b) ==
    IF b.kind = "return"
    THEN [raised |-> FALSE, value |-> ModelResponse(b.content, name), exc |-> <<>>]
    ELSE [raised |-> TRUE, value |-> <<>>, exc |-> b.message]

\* f"{client.name}: {e}"
FormatError(name, e) == <<name, ": ">> \o e

\* f"{self.clients[i].name}: Timed out after {timeout}s"
FormatTimedOut(name, t) == <<name, ": ", "Timed out after ", Str(t), "s">>

\* f"{self.clients[i].name}: Unexpected error: {e}"
FormatUnexpected(name, e) == <<name, ": ", "Unexpected error: ">> \o e

\* Variant: no try/except around client.call, the exception stays in the
\* future and future.result() re-raises it.
call_model_uncaught(idx, name, b) ==
    LET r == ClientCall(name, b) IN
    IF r.raised
    THEN [raised |-> TRUE, idx |-> idx, response |-> None,
          error |-> None, exc |-> r.exc]
    ELSE [raised |-> FALSE, idx |-> idx, response |-> Some(r.value),
          error |-> None, exc |-> <<>>]

\* The closure call_model(idx, client): what the future of task idx holds
\* once the task has finished.
call_model(idx, name, b) ==
    LET r == ClientCall(name, b) IN
    IF r.raised
    THEN [raised |-> FALSE, idx |-> idx, response |-> None,
          error |-> Some(FormatError(name, r.exc)), exc |-> <<>>]
    ELSE [raised |-> FALSE, idx |-> idx, response |-> Some(r.value),
          error |-> None, exc |-> <<>>]

-----------------------------------------------------------------------------
(* MultiModelReviewer._calculate_consensus *)

\* Variant: a Korean keyword is counted under its English counterpart.
KeywordsInAsTerms(content_lower) ==
    {(IF CONSENSUS_KEYWORDS[k] = T_boan THEN T_security ELSE CONSENSUS_KEYWORDS[k]) :
        k \in {j \in 1..Len(CONSENSUS_KEYWORDS) :
                  Contains(Lower(CONSENSUS_KEYWORDS[j]), content_lower)}}

\* The keywords the inner loop `for keyword in self.CONSENSUS_KEYWORDS`
\* finds in one lowered review text.
KeywordsIn(content_lower) ==
    {CONSENSUS_KEYWORDS[k] : k \in
        {j \in 1..Len(CONSENSUS_KEYWORDS) :
            Contains(Lower(CONSENSUS_KEYWORDS[j]), content_lower)}}

\* keyword_counts[keyword] += 1 for every keyword of `found`, on a Counter
\* (a key is present once its count is at least 1).
CounterInc(counter, found) ==
    [kw \in (DOMAIN counter) \cup found |->
        (IF kw \in DOMAIN counter THEN counter[kw] ELSE 0)
        + (IF kw \in found THEN 1 ELSE 0)]

\* The outer loop `for review in reviews`, from review r on.
RECURSIVE CountKeywords(_, _, _)
CountKeywords(rs, r, counter) ==
    IF r > Len(rs) THEN counter
    ELSE CountKeywords(rs, r + 1,
             CounterInc(counter, KeywordsIn(Lower(rs[r].content))))

\* threshold = len(reviews) / 2
Threshold(rs) == <<Len(rs), 2>>

\* Variant: `count >= threshold`.
AtLeastThreshold(count, threshold) == count * threshold[2] >= threshold[1]

\* `count > threshold`
OverThreshold(count, threshold) == IntGt(count, threshold)

\* Lines 194-211: the ratio of majority keywords among the mentioned ones.
KeywordRatio(rs) ==
    LET keyword_counts == CountKeywords(rs, 1, <<>>)
        threshold == Threshold(rs)
        consensus_keywords ==
            Cardinality({kw \in DOMAIN keyword_counts :
                            OverThreshold(keyword_counts[kw], threshold)})
        total_keywords == Cardinality(DOMAIN keyword_counts)
    IN IF DOMAIN keyword_counts = {}
       THEN Float0
       ELSE Div(consensus_keywords, total_keywords)

\* Variant: only the empty list is special, `len(reviews) < 1`.
_calculate_consensus_lt1(rs) ==
    IF Len(rs) < 1 THEN Float0 ELSE KeywordRatio(rs)

_calculate_consensus(rs) ==
    IF Len(rs) < 2
    THEN (IF Len(rs) = 0 THEN Float0 ELSE Float1)
    ELSE KeywordRatio(rs)

\* The keywords `sum(1 for count in keyword_counts.values() if count >
\* threshold)` counts.
ConsensusKeywords(rs) ==
    LET keyword_counts == CountKeywords(rs, 1, <<>>)
    IN  {kw \in DOMAIN keyword_counts :
            OverThreshold(keyword_counts[kw], Threshold(rs))}

-----------------------------------------------------------------------------
(* MultiModelReviewer._extract_common_keywords *)

\* The keys of the Counter in insertion order: review by review, within a
\* review in the order of CONSENSUS_KEYWORDS, each keyword at its first
\* mention.
RECURSIVE KeyOrder(_, _, _)
KeyOrder(rs, r, keys) ==
    IF r > Len(rs) THEN keys
    ELSE LET found == KeywordsIn(Lower(rs[r].content))
             seen == {keys[k] : k \in 1..Len(keys)}
             IsNew(kw) == kw \in found /\ kw \notin seen
         IN  KeyOrder(rs, r + 1, keys \o SelectSeq(CONSENSUS_KEYWORDS, IsNew))

\* Variant: a keyword is common from three mentions on.
_extract_common_keywords_from3(rs) ==
    IF Len(rs) < 2 THEN <<>>
    ELSE LET keyword_counts == CountKeywords(rs, 1, <<>>)
             IsCommon(kw) == keyword_counts[kw] >= 3
         IN  SelectSeq(KeyOrder(rs, 1, <<>>), IsCommon)

\* [kw for kw, count in keyword_counts.items() if count >= 2]
_extract_common_keywords(rs) ==
    IF Len(rs) < 2 THEN <<>>
    ELSE LET keyword_counts == CountKeywords(rs, 1, <<>>)
             IsCommon(kw) == keyword_counts[kw] >= 2
         IN  SelectSeq(KeyOrder(rs, 1, <<>>), IsCommon)

-----------------------------------------------------------------------------
(* MultiModelReviewer.review: pure pieces *)

\* Truthiness of an Optional[int] in `parallel_timeout or ...`.
Truthy(opt) == opt # None /\ opt[1] # 0

\* int(x * 1.5) for an int x: truncation toward zero.
IntOneAndHalf(x) == IF x >= 0 THEN (3 * x) \div 2 ELSE -((3 * (-x)) \div 2)

\* timeout = parallel_timeout or int(self.timeout * 1.5)
EffectiveTimeout(parallel_timeout, t) ==
    IF Truthy(parallel_timeout) THEN parallel_timeout[1] ELSE IntOneAndHalf(t)

\* [None] * len(self.clients)
NoneList(n) == [i \in 1..n |-> None]

\* Variant: the outcome is stored counting from the other end of the list.
RecordOutcomeMirrored(rv, er, res) ==
    [reviews |-> [rv EXCEPT ![Len(rv) + 1 - res.idx] = res.response],
     errors  |-> [er EXCEPT ![Len(er) + 1 - res.idx] = res.error]]

\* reviews[idx] = response; errors[idx] = error
RecordOutcome(rv, er, res) ==
    [reviews |-> [rv EXCEPT ![res.idx] = res.response],
     errors  |-> [er EXCEPT ![res.idx] = res.error]]

\* Variant: the marker is written without looking at the slot.
MarkTimedOutEverySlot(rv, er, names, t) ==
    [i \in 1..Len(er) |-> Some(FormatTimedOut(names[i], t))]

\* Variant: the marker also replaces the error of a collected failure.
MarkTimedOutAlsoFailed(rv, er, names, t) ==
    [i \in 1..Len(er) |->
        IF rv[i] = None THEN Some(FormatTimedOut(names[i], t)) ELSE er[i]]

\* The loop of the `except FuturesTimeoutError` branch: every slot with
\* neither a review nor an error gets the timeout marker.
MarkTimedOut(rv, er, names, t) ==
    [i \in 1..Len(er) |->
        IF rv[i] = None /\ er[i] = None
        THEN Some(FormatTimedOut(names[i], t))
        ELSE er[i]]

\* The loop of the `except Exception` branch.
MarkUnexpected(rv, er, names, e) ==
    [i \in 1..Len(er) |->
        IF rv[i] = None /\ er[i] = None
        THEN Some(FormatUnexpected(names[i], e))
        ELSE er[i]]

\* Leaving `with ThreadPoolExecutor(...)` calls shutdown(wait=True), which
\* joins every worker thread: the block is left once no task is running.
ExecutorShutdownDone(fs) == \A i \in 1..Len(fs) : fs[i] # None

\* successful_reviews = [r for r in reviews if r is not None]
RECURSIVE successful_reviews(_)
successful_reviews(rv) ==
    IF rv = <<>> THEN <<>>
    ELSE (IF Head(rv) # None THEN <<Head(rv)[1]>> ELSE <<>>)
         \o successful_reviews(Tail(rv))

\* MultiModelReviewResult(reviews, errors, consensus_score)
MultiModelReviewResult(rv, er) ==
    [reviews |-> rv, errors |-> er,
     consensus_score |-> _calculate_consensus(successful_reviews(rv))]

\* Derived properties of MultiModelReviewResult.
success_count(res) == Cardinality({i \in 1..Len(res.reviews) : res.reviews[i] # None})
total_count(res) == Len(res.reviews)
all_success(res) == \A i \in 1..Len(res.reviews) : res.reviews[i] # None
any_success(res) == \E i \in 1..Len(res.reviews) : res.reviews[i] # None

-----------------------------------------------------------------------------
(* Fan-out caller: state machine *)

N == Len(clients)

FanoutIdle ==
    /\ pc = "idle"
    /\ clients = <<>>
    /\ self_timeout = 0
    /\ timeout = 0
    /\ reviews = <<>>
    /\ errors = <<>>
    /\ calls = <<>>
    /\ futures = <<>>
    /\ cur = 0
    /\ timedOutAt = 0
    /\ doneAtTimeout = {}
    /\ reverseOrder = TRUE
    /\ result = None

ScorerIdle ==
    /\ sc_pc = "idle"
    /\ sc_reviews = <<>>
    /\ sc_score = None
    /\ sc_common = None

PairIdle ==
    /\ p_pc = "idle"
    /\ p_self_timeout = 0
    /\ p_timeout = 0
    /\ gpt_future = None
    /\ claude_future = None
    /\ gpt_review = None
    /\ claude_review = None
    /\ gpt_error = None
    /\ claude_error = None
    /\ p_result = None

DebateIdle ==
    /\ d_pc = "idle"
    /\ d_origin = "none"
    /\ rounds = <<>>
    /\ d_last = "none"
    /\ d_calls = 0
    /\ d_history = None
    /\ d_focus = None
    /\ d_prompt = None
    /\ d_review = None

LoopIdle ==
    /\ l_file = None
    /\ l_state = None
    /\ l_saved = None
    /\ l_last = "idle"
    /\ l_prev = "idle"

CliIdle ==
    /\ c_file = None
    /\ c_session = None
    /\ c_last = "idle"

CheckpointIdle ==
    /\ k_auto_mode = FALSE
    /\ k_history = <<>>
    /\ k_prompts = 0
    /\ k_last = <<>>

WorkflowIdle ==
    /\ w_pc = "idle"
    /\ w_state = <<>>
    /\ w_file = <<>>
    /\ w_trace = <<>>
    /\ w_last = <<>>

ClientIdle ==
    /\ m_pc = "idle"
    /\ m_client = <<>>
    /\ m_runs = <<>>
    /\ m_last_error = <<>>
    /\ m_outcome = <<>>

HistoryIdle ==
    /\ h_files = <<>>
    /\ h_index = <<>>
    /\ h_latest = <<>>
    /\ h_last = <<>>

TimeoutIdle ==
    /\ t_pc = "idle"
    /\ t_per_call = 0
    /\ t_parallel = <<>>
    /\ t_effective = <<>>

\* The arguments of MultiModelReviewer(clients, timeout), before __init__ runs.
FanoutInit ==
    /\ pc = "new"
    /\ clients \in {SubSeq(ClientNames, 1, n) : n \in 0..MaxClients}
    /\ self_timeout \in SelfTimeouts
    /\ timeout = 0
    /\ reviews = <<>>
    /\ errors = <<>>
    /\ calls = <<>>
    /\ futures = <<>>
    /\ cur = 0
    /\ timedOutAt = 0
    /\ doneAtTimeout = {}
    /\ reverseOrder = TRUE
    /\ result = None

Init == FanoutInit /\ ScorerIdle /\ PairIdle /\ DebateIdle /\ LoopIdle /\ CliIdle /\ CheckpointIdle /\ WorkflowIdle /\ ClientIdle /\ HistoryIdle /\ TimeoutIdle

\* Variant: the emptiness test is missing.
RejectsClientsNever(cs) == FALSE

\* `if not clients`
RejectsClients(cs) == cs = <<>>

\* MultiModelReviewer.__init__
Construct ==
    /\ pc = "new"
    /\ pc' = IF RejectsClients(clients) THEN "ValueError" ELSE "ready"
    /\ UNCHANGED <<clients, self_timeout, timeout, reviews, errors, calls, futures, cur,
                   timedOutAt, doneAtTimeout, reverseOrder, result>>
    /\ UNCHANGED notFanoutVars

\* review(): everything up to the first future.result(): the timeout, the
\* two result lists and the submission of one task per client.
\* ThreadPoolExecutor(max_workers=0) raises ValueError.
Review ==
    /\ pc = "ready"
    /\ \E parallel_timeout \in ParallelTimeouts :
           timeout' = EffectiveTimeout(parallel_timeout, self_timeout)
    /\ reviews' = NoneList(N)
    /\ errors' = NoneList(N)
    /\ calls' = NoneList(N)
    /\ futures' = NoneList(N)
    /\ cur' = 1
    /\ pc' = IF N = 0 THEN "executor_error" ELSE "waiting"
    /\ UNCHANGED <<clients, self_timeout, timedOutAt, doneAtTimeout,
                   reverseOrder, result>>
    /\ UNCHANGED notFanoutVars

\* A worker thread finishes call_model(i, clients[i]).
TaskComplete(i) ==
    /\ pc \in {"waiting", "exiting"}
    /\ futures[i] = None
    /\ \E b \in CallBehaviours :
           /\ calls' = [calls EXCEPT ![i] = Some(b)]
           /\ futures' = [futures EXCEPT ![i] = Some(call_model(i, clients[i], b))]
    /\ reverseOrder' = (/\ reverseOrder
                        /\ \A j \in 1..N : (j > i) = (futures[j] # None))
    /\ UNCHANGED <<pc, clients, self_timeout, timeout, reviews, errors, cur,
                   timedOutAt, doneAtTimeout, result>>
    /\ UNCHANGED notFanoutVars

\* Where the for-loop goes after the body for future `k`.
LoopNext(k) == IF k = N THEN "exiting" ELSE "waiting"

\* future.result(timeout=timeout) returns (or re-raises) for the future the
\* loop is waiting on.
Collect ==
    /\ pc = "waiting"
    /\ futures[cur] # None
    /\ LET res == futures[cur][1] IN
       IF res.raised
       THEN /\ errors' = MarkUnexpected(reviews, errors, clients, res.exc)
            /\ reviews' = reviews
            /\ pc' = "exiting"
            /\ cur' = cur
       ELSE /\ reviews' = RecordOutcome(reviews, errors, res).reviews
            /\ errors' = RecordOutcome(reviews, errors, res).errors
            /\ pc' = LoopNext(cur)
            /\ cur' = IF cur = N THEN cur ELSE cur + 1
    /\ UNCHANGED <<clients, self_timeout, timeout, calls, futures, timedOutAt,
                   doneAtTimeout, reverseOrder, result>>
    /\ UNCHANGED notFanoutVars

\* Variant: `continue` in place of `break`.
AfterTimeoutContinue(k) == LoopNext(k)

\* Where the caller goes after the `except FuturesTimeoutError` branch: break.
AfterTimeout(k) == "exiting"

\* future.result(timeout=timeout) raises FuturesTimeoutError: the task the
\* loop is waiting on has not finished when the wait expires.
Timeout ==
    /\ pc = "waiting"
    /\ futures[cur] = None
    /\ errors' = MarkTimedOut(reviews, errors, clients, timeout)
    /\ pc' = AfterTimeout(cur)
    /\ cur' = IF AfterTimeout(cur) = "waiting" /\ cur < N THEN cur + 1 ELSE cur
    /\ timedOutAt' = cur
    /\ doneAtTimeout' = {i \in 1..N : futures[i] # None}
    /\ UNCHANGED <<clients, self_timeout, timeout, reviews, calls, futures,
                   reverseOrder, result>>
    /\ UNCHANGED notFanoutVars

\* The `with` block is left (all workers joined), the consensus is scored
\* and the result is returned.
Return ==
    /\ pc = "exiting"
    /\ ExecutorShutdownDone(futures)
    /\ result' = Some(MultiModelReviewResult(reviews, errors))
    /\ pc' = "returned"
    /\ UNCHANGED <<clients, self_timeout, timeout, reviews, errors, calls, futures, cur,
                   timedOutAt, doneAtTimeout, reverseOrder>>
    /\ UNCHANGED notFanoutVars

Next ==
    \/ Construct
    \/ Review
    \/ \E i \in 1..N : TaskComplete(i)
    \/ Collect
    \/ Timeout
    \/ Return

Spec == Init /\ [][Next]_vars

-----------------------------------------------------------------------------
(* Scorer harness: _calculate_consensus applied to every short list of     *)
(* responses.                                                              *)

RECURSIVE SeqsUpTo(_, _)
SeqsUpTo(S, n) ==
    IF n = 0 THEN {<<>>}
    ELSE LET shorter == SeqsUpTo(S, n - 1) IN
         shorter \cup {Append(s, x) : s \in {t \in shorter : Len(t) = n - 1}, x \in S}

ScorerInit ==
    /\ sc_pc = "input"
    /\ sc_reviews \in SeqsUpTo({ModelResponse(t, "m") : t \in ScorerTexts}, MaxScored)
    /\ sc_score = None
    /\ sc_common = None

Score ==
    /\ sc_pc = "input"
    /\ sc_score' = Some(_calculate_consensus(sc_reviews))
    /\ sc_common' = Some(_extract_common_keywords(sc_reviews))
    /\ sc_pc' = "scored"
    /\ UNCHANGED sc_reviews
    /\ UNCHANGED notScorerVars

ScorerNext == Score

ScorerSpecInit == ScorerInit /\ FanoutIdle /\ PairIdle /\ DebateIdle /\ LoopIdle /\ CliIdle /\ CheckpointIdle /\ WorkflowIdle /\ ClientIdle /\ HistoryIdle /\ TimeoutIdle

ScorerSpec == ScorerSpecInit /\ [][ScorerNext]_vars

-----------------------------------------------------------------------------
(* Writes to the outcome lists (checked under Spec) *)

\* Slot i of the outcome lists as a pair.
Slot(rv, er, i) == <<rv[i], er[i]>>

\* Slot i still holds the two Nones the lists were created with.
Unwritten(rv, er, i) == rv[i] = None /\ er[i] = None

\* C34: within one batch every slot of the outcome lists is written
\* exactly once: a step changes a slot only if the slot was unwritten, it
\* leaves the slot written (so the collected outcome and the marker never
\* both land in one slot), and at the return no slot is unwritten. The
\* completion of a worker task writes no slot: it changes only its own
\* future, to the outcome of its own client's call under its own index.
C34_EachSlotWrittenOnceNoneByWorkers ==
    [][(pc \in {"waiting", "exiting"}) =>
          /\ \A i \in 1..N :
                 Slot(reviews', errors', i) # Slot(reviews, errors, i) =>
                     /\ Unwritten(reviews, errors, i)
                     /\ ~Unwritten(reviews', errors', i)
                     /\ futures' = futures
          /\ futures' # futures =>
                 /\ reviews' = reviews /\ errors' = errors
                 /\ \E i \in 1..N :
                        /\ futures[i] = None /\ futures'[i] # None
                        /\ \A j \in 1..N \ {i} : futures'[j] = futures[j]
                        /\ ~futures'[i][1].raised => futures'[i][1].idx = i
                        /\ \E b \in CallBehaviours :
                               futures'[i] = Some(call_model(i, clients[i], b))
          /\ pc' = "returned" => \A i \in 1..N : ~Unwritten(reviews', errors', i)]_vars

\* C34 case: in a batch of three the first slot holds a collected
\* response, the second a collected failure, and the wait on the third
\* expired, which put the marker in the third slot only.
C34_Witness ==
    /\ pc = "returned"
    /\ N = 3
    /\ timedOutAt = 3
    /\ reviews[1] # None
    /\ reviews[2] = None /\ calls[2] # None /\ errors[2] # Some(FormatTimedOut(clients[2], timeout))
    /\ errors[3] = Some(FormatTimedOut(clients[3], timeout))

-----------------------------------------------------------------------------
(* Timeout harness: the first statement of MultiModelReviewer.review and of
   ParallelReviewer.review, `timeout = parallel_timeout or int(self.timeout * 1.5)`,
   over a range of per-call timeouts and overrides *)

TimeoutInit ==
    /\ t_pc = "input"
    /\ t_per_call \in 1..MaxPerCall
    /\ t_parallel \in {None} \cup {Some(n) : n \in 0..MaxOverride}
    /\ t_effective = None

ComputeTimeout ==
    /\ t_pc = "input"
    /\ t_effective' = Some(EffectiveTimeout(t_parallel, t_per_call))
    /\ t_pc' = "computed"
    /\ UNCHANGED <<t_per_call, t_parallel>>
    /\ UNCHANGED notTimeoutVars

TimeoutNext == ComputeTimeout

TimeoutSpecInit == TimeoutInit /\ FanoutIdle /\ ScorerIdle /\ PairIdle /\ DebateIdle /\ LoopIdle /\ CliIdle /\ CheckpointIdle /\ WorkflowIdle /\ ClientIdle /\ HistoryIdle

TimeoutSpec == TimeoutSpecInit /\ [][TimeoutNext]_vars

\* C33: with no aggregate timeout passed the effective wait timeout is
\* 1.5 times the per-call timeout, for every positive per-call timeout;
\* with an override passed it is that override.
C33_EffectiveTimeoutIsOverrideOrOneAndHalf ==
    t_pc = "computed" =>
        IF t_parallel = None
        THEN 2 * t_effective[1] = 3 * t_per_call
        ELSE t_effective[1] = t_parallel[1]

-----------------------------------------------------------------------------
(* Properties of the fan-out caller (checked under Spec) *)

\* The slots the for-loop has written from a collected future.
Collected(i) == IF timedOutAt = 0 THEN i < cur \/ pc \in {"exiting", "returned"}
                ELSE i < timedOutAt

\* C1: review returns reviews and errors of length N each, and entry i is
\* the outcome of the reviewer at input index i, whatever the completion
\* order: a review at i is the response client i returned, an error at i is
\* client i's own failure or client i's timeout marker.
C1_IndexStableOutcomes ==
    pc = "returned" =>
        LET res == result[1] IN
        /\ N >= 1
        /\ Len(res.reviews) = N
        /\ Len(res.errors) = N
        /\ \A i \in 1..N :
              /\ res.reviews[i] # None =>
                    /\ calls[i][1].kind = "return"
                    /\ res.reviews[i][1] = ModelResponse(calls[i][1].content, clients[i])
              /\ res.errors[i] # None =>
                    \/ /\ calls[i][1].kind = "raise"
                       /\ res.errors[i][1] = FormatError(clients[i], calls[i][1].message)
                    \/ res.errors[i][1] = FormatTimedOut(clients[i], timeout)

\* Three reviewers that finish in reverse submission order, with different
\* outcomes, all collected.
C1_Witness ==
    /\ pc = "returned"
    /\ N = 3
    /\ reverseOrder
    /\ timedOutAt = 0
    /\ result[1].reviews[1] # None
    /\ result[1].errors[2] # None
    /\ result[1].reviews[3] # None
    /\ result[1].reviews[1][1].content # result[1].reviews[3][1].content

\* C2: tasks are awaited in submission order; when the wait on reviewer k
\* expires, k and every reviewer without a recorded outcome (k..N) carry
\* '<name>: Timed out after <timeout>s' and no review, the outcomes recorded
\* for 1..k-1 stay as collected, and nothing a task finishes later enters the
\* lists or the returned result.
C2_TimeoutMarksUnrecorded ==
    /\ pc = "waiting" =>
          \A i \in 1..N : (i < cur) = (reviews[i] # None \/ errors[i] # None)
    /\ timedOutAt # 0 =>
          /\ pc \in {"exiting", "returned"}
          /\ \A i \in 1..N :
                IF i >= timedOutAt
                THEN /\ reviews[i] = None
                     /\ errors[i] = Some(FormatTimedOut(clients[i], timeout))
                ELSE /\ futures[i] # None
                     /\ reviews[i] = futures[i][1].response
                     /\ errors[i] = futures[i][1].error
          /\ pc = "returned" =>
                /\ result[1].reviews = reviews
                /\ result[1].errors = errors

\* The wait on reviewer 2 of 3 expired after reviewer 1 was collected, and
\* reviewer 3 returned a response only after the expiry.
C2_Witness ==
    /\ pc = "returned"
    /\ N = 3
    /\ timedOutAt = 2
    /\ result[1].reviews[1] # None
    /\ 3 \notin doneAtTimeout
    /\ futures[3][1].response # None
    /\ result[1].reviews[3] = None

\* C3: in a batch of 3 where the wait on reviewer 1 expires, reviewer 2, if
\* its call had completed before the expiry, keeps its real result in the
\* returned result and is not marked as timed out.
C3_CompletedReviewerKeepsResult ==
    (pc = "returned" /\ N = 3 /\ timedOutAt = 1 /\ 2 \in doneAtTimeout) =>
        /\ result[1].reviews[2] = futures[2][1].response
        /\ result[1].errors[2] = futures[2][1].error

\* The caller is inside the exit of the `with` block and a worker is still
\* running its call.
WaitingForWorkers == pc = "exiting" /\ ~ExecutorShutdownDone(futures)

\* C4: once a wait has expired the caller waits no further: it is never
\* held back by a reviewer call that is still running.
C4_NoWaitAfterTimeout == timedOutAt # 0 => ~WaitingForWorkers

\* C5: in every returned result exactly one of reviews[i] and errors[i] is
\* non-null for each i, on the timeout path as well.
C5_ExactlyOneOfReviewAndError ==
    pc = "returned" =>
        \A i \in 1..N : (result[1].reviews[i] = None) # (result[1].errors[i] = None)

\* A returned result after an expired wait that holds a collected response,
\* a collected failure and a timeout marker.
C5_Witness ==
    /\ pc = "returned"
    /\ N = 3
    /\ timedOutAt = 3
    /\ result[1].reviews[1] # None
    /\ result[1].errors[2] # None
    /\ calls[2][1].kind = "raise"
    /\ result[1].errors[3] = Some(FormatTimedOut(clients[3], timeout))

C7_EmptyListRejected ==
    /\ clients = <<>> =>
          /\ pc \in {"new", "ValueError"}
          /\ calls = <<>>
          /\ futures = <<>>
          /\ result = None
    /\ pc = "ValueError" => clients = <<>>

\* The constructor has raised ValueError for the empty list.
C7_Witness == pc = "ValueError" /\ clients = <<>> /\ futures = <<>>

\* C9: the consensus score of a returned batch is 0.0 when no reviewer
\* succeeded and 1.0 when exactly one succeeded, whatever its text and
\* however many others failed or timed out.
C9_ScoreOfZeroOrOneSuccess ==
    pc = "returned" =>
        LET res == result[1] IN
        /\ success_count(res) = 0 => res.consensus_score = Float0
        /\ success_count(res) = 1 => res.consensus_score = Float1

\* One success whose text holds no keyword, next to a failed and a timed-out
\* reviewer.
C9_Witness ==
    /\ pc = "returned"
    /\ N = 3
    /\ success_count(result[1]) = 1
    /\ result[1].reviews[1] = Some(ModelResponse(T_ok, clients[1]))
    /\ calls[2][1].kind = "raise"
    /\ timedOutAt = 3
    /\ result[1].consensus_score = Float1

-----------------------------------------------------------------------------
(* Properties of the consensus scorer (checked under ScorerSpec) *)

\* The responses of rs whose text contains keyword kw, case-insensitively.
Mentioning(kw, rs) ==
    {r \in 1..Len(rs) : Contains(Lower(kw), Lower(rs[r].content))}

Keywords == {CONSENSUS_KEYWORDS[k] : k \in 1..Len(CONSENSUS_KEYWORDS)}

\* Keywords contained in at least one response.
Mentioned(rs) == {kw \in Keywords : Mentioning(kw, rs) # {}}

\* Keywords contained in strictly more than half of the responses.
InConsensus(rs) == {kw \in Keywords : 2 * Cardinality(Mentioning(kw, rs)) > Len(rs)}

Range(s) == {s[k] : k \in 1..Len(s)}

PairTerms == {T_security, T_boan}

\* Every response mentions 'security' or its Korean counterpart, both occur,
\* and no other keyword occurs.
OnlyThePair(rs) ==
    /\ Mentioned(rs) = PairTerms
    /\ \A r \in 1..Len(rs) : \E kw \in PairTerms : r \in Mentioning(kw, rs)

-----------------------------------------------------------------------------
(* Two-party reviewer ParallelReviewer (src/core/parallel_review.py):      *)
(* texts, the keyword-asymmetry conflict detector and the result record.   *)

T_sqlInjection == <<83, 81, 76, 32, 105, 110, 106, 101, 99, 116, 105, 111, 110,
                    32, 114, 105, 115, 107>>
    \* "SQL injection risk"
T_looksFine == <<108, 111, 111, 107, 115, 32, 102, 105, 110, 101>>
    \* "looks fine"
T_XSS == <<88, 83, 83>>
    \* "XSS"
T_empty == <<>>
    \* ""

\* Response texts a party's call may return in the two-party model.
PairTexts == {T_sqlInjection, T_looksFine, T_XSS, T_security, T_boan, T_empty}

\* ParallelReviewer.SECURITY_KEYWORDS, in source order: "security",
\* "vulnerability", "injection", "xss", "csrf", "auth", U+BCF4 U+C548,
\* U+CDE8 U+C57D U+C810.
SECURITY_KEYWORDS == <<
    <<115, 101, 99, 117, 114, 105, 116, 121>>,
    <<118, 117, 108, 110, 101, 114, 97, 98, 105, 108, 105, 116, 121>>,
    <<105, 110, 106, 101, 99, 116, 105, 111, 110>>,
    <<120, 115, 115>>,
    <<99, 115, 114, 102>>,
    <<97, 117, 116, 104>>,
    <<48372, 50504>>,
    <<52712, 50557, 51216>> >>

\* ConflictType.SECURITY.value
ConflictType_SECURITY == "security"

\* ReviewConflict(type, gpt_opinion, claude_opinion, recommended)
ReviewConflict(type, gpt_opinion, claude_opinion, recommended) ==
    [type |-> type, gpt_opinion |-> gpt_opinion,
     claude_opinion |-> claude_opinion, recommended |-> recommended]

\* The conflict appended for a keyword only one side mentions.
SecurityConflict(gpt_has) ==
    ReviewConflict(ConflictType_SECURITY,
                   IF gpt_has THEN "Mentioned security concern"
                              ELSE "No security concern mentioned",
                   IF ~gpt_has THEN "Mentioned security concern"
                               ELSE "No security concern mentioned",
                   <<"Review security concern from: ",
                     IF gpt_has THEN "GPT" ELSE "Claude">>)

\* Variant: only a keyword GPT mentions and Claude does not counts.
OnlyGptHas(gpt_has, claude_has) == gpt_has /\ ~claude_has

\* `if gpt_has != claude_has`
Differs(gpt_has, claude_has) == gpt_has # claude_has

\* The for-loop over SECURITY_KEYWORDS from position k on, with its break.
RECURSIVE ScanSecurityKeywords(_, _, _)
ScanSecurityKeywords(k, gpt_content, claude_content) ==
    IF k > Len(SECURITY_KEYWORDS) THEN <<>>
    ELSE LET keyword == SECURITY_KEYWORDS[k]
             gpt_has == Contains(keyword, gpt_content)
             claude_has == Contains(keyword, claude_content)
         IN  IF Differs(gpt_has, claude_has)
             THEN <<SecurityConflict(gpt_has)>>
             ELSE ScanSecurityKeywords(k + 1, gpt_content, claude_content)

\* Variant: an absent review is read as an empty text.
_detect_conflicts_absent_as_empty(gpt, claude) ==
    ScanSecurityKeywords(1,
        IF gpt = None THEN <<>> ELSE Lower(gpt[1].content),
        IF claude = None THEN <<>> ELSE Lower(claude[1].content))

\* ParallelReviewer._detect_conflicts: `gpt`, `claude` are Optional
\* ModelResponses (a ModelResponse is truthy whatever its content).
_detect_conflicts(gpt, claude) ==
    IF gpt = None \/ claude = None THEN <<>>
    ELSE ScanSecurityKeywords(1, Lower(gpt[1].content), Lower(claude[1].content))

\* ParallelReviewResult as review() builds it (the synthesized text is not
\* modelled).
ParallelReviewResult(gr, cr, ge, ce) ==
    [gpt_review |-> gr, claude_review |-> cr, gpt_error |-> ge, claude_error |-> ce,
     conflicts |-> _detect_conflicts(gr, cr)]

\* ParallelReviewResult.success / both_success
pair_success(res) == res.gpt_review # None \/ res.claude_review # None
both_success(res) == res.gpt_review # None /\ res.claude_review # None

-----------------------------------------------------------------------------
(* Two-party reviewer: state machine of ParallelReviewer.review *)

\* The error class each party's client raises (CodexError, ClaudeError).
OwnError(party) == IF party = "GPT" THEN "CodexError" ELSE "ClaudeError"

\* The model name each party's client reports.
PartyModel(party) == IF party = "GPT" THEN "codex-gpt" ELSE "claude-sonnet"

\* What a party's client.call may do: return a response, raise its own
\* error class, or raise any other exception.
PartyBehaviours(party) ==
    {[kind |-> "return", content |-> t, cls |-> "", message |-> <<>>] : t \in PairTexts}
    \cup {[kind |-> "raise", content |-> <<>>, cls |-> c, message |-> m] :
              c \in {OwnError(party), "RuntimeError"}, m \in ExcMessages}

\* The three except-branches of one party's future.result().
PartyTimedOut(party, t) == <<party, " timed out after ", Str(t), "s">>
PartyUnexpected(party, message) == <<party, " unexpected error: ">> \o message
PartyError(party, b) ==
    IF b.cls = OwnError(party) THEN b.message ELSE PartyUnexpected(party, b.message)

\* Variant: once GPT has no review, Claude is marked as timed out without
\* being awaited (the short-circuit of the N-party caller).
PartyOutcomeShortCircuit(party, future, t) ==
    IF future = None \/ (party = "Claude" /\ gpt_review = None)
    THEN [review |-> None, error |-> Some(PartyTimedOut(party, t))]
    ELSE IF future[1].kind = "return"
         THEN [review |-> Some(ModelResponse(future[1].content, PartyModel(party))),
               error |-> None]
         ELSE [review |-> None, error |-> Some(PartyError(party, future[1]))]

\* The (review, error) pair one party's try-block leaves behind; `future`
\* is None when the wait expired.
PartyOutcome(party, future, t) ==
    IF future = None
    THEN [review |-> None, error |-> Some(PartyTimedOut(party, t))]
    ELSE IF future[1].kind = "return"
         THEN [review |-> Some(ModelResponse(future[1].content, PartyModel(party))),
               error |-> None]
         ELSE [review |-> None, error |-> Some(PartyError(party, future[1]))]

\* The arguments of ParallelReviewer(timeout=...), constructed.
PairInit ==
    /\ p_pc = "ready"
    /\ p_self_timeout \in SelfTimeouts
    /\ p_timeout = 0
    /\ gpt_future = None
    /\ claude_future = None
    /\ gpt_review = None
    /\ claude_review = None
    /\ gpt_error = None
    /\ claude_error = None
    /\ p_result = None

\* review(): the timeout and the submission of both calls.
PairReview ==
    /\ p_pc = "ready"
    /\ \E parallel_timeout \in ParallelTimeouts :
           p_timeout' = EffectiveTimeout(parallel_timeout, p_self_timeout)
    /\ p_pc' = "wait_gpt"
    /\ UNCHANGED <<p_self_timeout, gpt_future, claude_future, gpt_review, claude_review,
                   gpt_error, claude_error, p_result>>
    /\ UNCHANGED notPairVars

\* The worker thread running gpt_client.call finishes.
GptComplete ==
    /\ p_pc \in {"wait_gpt", "wait_claude", "exiting"}
    /\ gpt_future = None
    /\ \E b \in PartyBehaviours("GPT") : gpt_future' = Some(b)
    /\ UNCHANGED <<p_pc, p_self_timeout, p_timeout, claude_future, gpt_review,
                   claude_review, gpt_error, claude_error, p_result>>
    /\ UNCHANGED notPairVars

\* The worker thread running claude_client.call finishes.
ClaudeComplete ==
    /\ p_pc \in {"wait_gpt", "wait_claude", "exiting"}
    /\ claude_future = None
    /\ \E b \in PartyBehaviours("Claude") : claude_future' = Some(b)
    /\ UNCHANGED <<p_pc, p_self_timeout, p_timeout, gpt_future, gpt_review,
                   claude_review, gpt_error, claude_error, p_result>>
    /\ UNCHANGED notPairVars

\* gpt_future.result(timeout=timeout) returns or re-raises.
CollectGpt ==
    /\ p_pc = "wait_gpt"
    /\ gpt_future # None
    /\ gpt_review' = PartyOutcome("GPT", gpt_future, p_timeout).review
    /\ gpt_error' = PartyOutcome("GPT", gpt_future, p_timeout).error
    /\ p_pc' = "wait_claude"
    /\ UNCHANGED <<p_self_timeout, p_timeout, gpt_future, claude_future, claude_review,
                   claude_error, p_result>>
    /\ UNCHANGED notPairVars

\* gpt_future.result(timeout=timeout) raises FuturesTimeoutError.
TimeoutGpt ==
    /\ p_pc = "wait_gpt"
    /\ gpt_future = None
    /\ gpt_review' = PartyOutcome("GPT", None, p_timeout).review
    /\ gpt_error' = PartyOutcome("GPT", None, p_timeout).error
    /\ p_pc' = "wait_claude"
    /\ UNCHANGED <<p_self_timeout, p_timeout, gpt_future, claude_future, claude_review,
                   claude_error, p_result>>
    /\ UNCHANGED notPairVars

\* claude_future.result(timeout=timeout) returns or re-raises.
CollectClaude ==
    /\ p_pc = "wait_claude"
    /\ claude_future # None
    /\ claude_review' = PartyOutcome("Claude", claude_future, p_timeout).review
    /\ claude_error' = PartyOutcome("Claude", claude_future, p_timeout).error
    /\ p_pc' = "exiting"
    /\ UNCHANGED <<p_self_timeout, p_timeout, gpt_future, claude_future, gpt_review,
                   gpt_error, p_result>>
    /\ UNCHANGED notPairVars

\* claude_future.result(timeout=timeout) raises FuturesTimeoutError.
TimeoutClaude ==
    /\ p_pc = "wait_claude"
    /\ claude_future = None
    /\ claude_review' = PartyOutcome("Claude", None, p_timeout).review
    /\ claude_error' = PartyOutcome("Claude", None, p_timeout).error
    /\ p_pc' = "exiting"
    /\ UNCHANGED <<p_self_timeout, p_timeout, gpt_future, claude_future, gpt_review,
                   gpt_error, p_result>>
    /\ UNCHANGED notPairVars

\* The `with` block is left (both workers joined), conflicts are detected
\* and the result is returned.
PairReturn ==
    /\ p_pc = "exiting"
    /\ gpt_future # None
    /\ claude_future # None
    /\ p_result' = Some(ParallelReviewResult(gpt_review, claude_review,
                                             gpt_error, claude_error))
    /\ p_pc' = "returned"
    /\ UNCHANGED <<p_self_timeout, p_timeout, gpt_future, claude_future, gpt_review,
                   claude_review, gpt_error, claude_error>>
    /\ UNCHANGED notPairVars

PairNext ==
    \/ PairReview
    \/ GptComplete
    \/ ClaudeComplete
    \/ CollectGpt
    \/ TimeoutGpt
    \/ CollectClaude
    \/ TimeoutClaude
    \/ PairReturn

PairSpecInit == PairInit /\ FanoutIdle /\ ScorerIdle /\ DebateIdle /\ LoopIdle /\ CliIdle /\ CheckpointIdle /\ WorkflowIdle /\ ClientIdle /\ HistoryIdle /\ TimeoutIdle

PairSpec == PairSpecInit /\ [][PairNext]_vars

\* One party's slots hold exactly one of review and error.
ExactlyOne(review, error) == (review = None) # (error = None)

\* C35: the outcome recorded for Claude is decided by Claude's own call
\* alone, whatever was recorded for GPT: when the wait on Claude ends, a
\* finished call leaves its response (or its own error) and only an
\* unfinished one leaves the timeout message; GPT's slots are not
\* touched; and once both waits are over each party has exactly one of
\* review and error.
C35_ClaudeOutcomeIndependentOfGpt ==
    [][/\ (p_pc = "wait_claude" /\ p_pc' # p_pc) =>
            /\ p_pc' = "exiting"
            /\ gpt_review' = gpt_review /\ gpt_error' = gpt_error
            /\ claude_future = None =>
                   /\ claude_review' = None
                   /\ claude_error' = Some(<<"Claude", " timed out after ", Str(p_timeout), "s">>)
            /\ (claude_future # None /\ claude_future[1].kind = "return") =>
                   /\ claude_review' # None
                   /\ claude_review'[1].content = claude_future[1].content
                   /\ claude_error' = None
            /\ (claude_future # None /\ claude_future[1].kind = "raise") =>
                   /\ claude_review' = None
                   /\ claude_error' = Some(IF claude_future[1].cls = "ClaudeError"
                                           THEN claude_future[1].message
                                           ELSE <<"Claude", " unexpected error: ">>
                                                    \o claude_future[1].message)
       /\ p_pc' \in {"exiting", "returned"} =>
            /\ ExactlyOne(gpt_review', gpt_error')
            /\ ExactlyOne(claude_review', claude_error')
       /\ p_pc' = "returned" =>
            /\ p_result'[1].claude_review = claude_review
            /\ p_result'[1].claude_error = claude_error]_vars

\* C35 case: the wait on GPT timed out and Claude's response is returned.
C35_Witness ==
    /\ p_pc = "returned"
    /\ p_result[1].gpt_review = None
    /\ p_result[1].gpt_error = Some(PartyTimedOut("GPT", p_timeout))
    /\ p_result[1].claude_review # None
    /\ p_result[1].claude_error = None

\* C35 case: GPT's call failed and Claude's own error is returned.
C35_WitnessBothFail ==
    /\ p_pc = "returned"
    /\ gpt_future[1].kind = "raise"
    /\ p_result[1].gpt_error = Some(PartyError("GPT", gpt_future[1]))
    /\ claude_future[1].kind = "raise"
    /\ p_result[1].claude_error = Some(PartyError("Claude", claude_future[1]))

-----------------------------------------------------------------------------
(* Properties of the two-party reviewer (checked under PairSpec) *)

\* Keyword number k occurs, case-insensitively, in the text.
Occurs(k, text) == Contains(Lower(SECURITY_KEYWORDS[k]), Lower(text))

\* The keywords that occur in exactly one of the two returned responses.
OneSided ==
    {k \in 1..Len(SECURITY_KEYWORDS) :
        Occurs(k, gpt_review[1].content) # Occurs(k, claude_review[1].content)}

\* The first of them in vocabulary order.
FirstOneSided == CHOOSE k \in OneSided : \A j \in OneSided : k <= j

\* C11: when both responses are present the review reports exactly one
\* conflict, of type SECURITY, if and only if some security keyword occurs
\* (case-insensitively) in exactly one of the two responses; it never reports
\* more than one conflict nor any other type, and the recommendation names
\* the side whose response contains the first such keyword in vocabulary
\* order.
C11_OneSecurityConflictIffAsymmetry ==
    (p_pc = "returned" /\ gpt_review # None /\ claude_review # None) =>
        LET conflicts == p_result[1].conflicts IN
        /\ Len(conflicts) <= 1
        /\ (Len(conflicts) = 1) = (OneSided # {})
        /\ \A i \in 1..Len(conflicts) : conflicts[i].type = ConflictType_SECURITY
        /\ OneSided # {} =>
               conflicts[1].recommended =
                   <<"Review security concern from: ",
                     IF Occurs(FirstOneSided, gpt_review[1].content)
                     THEN "GPT" ELSE "Claude">>

\* C11 case: GPT wrote "XSS" and Claude wrote "security"; the first one-sided
\* keyword is "security", so the one conflict points at Claude.
C11_Witness ==
    /\ p_pc = "returned"
    /\ gpt_review # None /\ claude_review # None
    /\ gpt_review[1].content = T_XSS
    /\ claude_review[1].content = T_security
    /\ Len(p_result[1].conflicts) = 1
    /\ p_result[1].conflicts[1].recommended = <<"Review security concern from: ", "Claude">>

\* C12: if either review is absent, the two-party review reports an empty
\* conflict list.
C12_AbsentReviewNoConflicts ==
    (p_pc = "returned" /\ (gpt_review = None \/ claude_review = None)) =>
        p_result[1].conflicts = <<>>

\* C12 case: GPT timed out, Claude's response mentions an injection.
C12_Witness ==
    /\ p_pc = "returned"
    /\ gpt_review = None
    /\ gpt_error = Some(PartyTimedOut("GPT", p_timeout))
    /\ claude_review # None
    /\ claude_review[1].content = T_sqlInjection
    /\ p_result[1].conflicts = <<>>

-----------------------------------------------------------------------------
(* Debate engine (src/core/debate.py): DebateRound, DebateResult and       *)
(* DebateEngine.  Response texts of a round are strings; an error is the   *)
(* sequence of the string pieces of its message.                          *)

\* DebateEngine.MAX_ROUNDS
MAX_ROUNDS == 5

\* Default of ParallelReviewer(timeout=...), the reviewer the engine builds.
DEFAULT_TIMEOUT == 300

\* DebateRound(round_number, gpt_response, claude_response, gpt_error, claude_error)
DebateRound(n, gpt_resp, claude_resp, gpt_err, claude_err) ==
    [round_number |-> n,
     gpt_response |-> gpt_resp, claude_response |-> claude_resp,
     gpt_error |-> gpt_err, claude_error |-> claude_err]

\* DebateResult.round_count
round_count(rs) == Len(rs)

\* Truthiness of an Optional[str] on the left of `or`.
StrTruthy(opt) == opt # None /\ opt[1] # ""

\* f"{x}" for an Optional error message.
FormatOptional(opt) == IF opt = None THEN <<"None">> ELSE opt[1]

\* r.gpt_response or f"*Error: {r.gpt_error}*"
ResponseOrError(response, error) ==
    IF StrTruthy(response) THEN <<response[1]>>
    ELSE <<"*Error: ">> \o FormatOptional(error) \o <<"*">>

\* The six parts format_history appends for one round.
RoundParts(r) ==
    << <<"## Round ", Str(r.round_number)>>,
       <<"### GPT">>,
       ResponseOrError(r.gpt_response, r.gpt_error),
       <<"### Claude">>,
       ResponseOrError(r.claude_response, r.claude_error),
       <<>> >>

\* "\n".join(parts)
RECURSIVE JoinLines(_)
JoinLines(parts) ==
    IF parts = <<>> THEN <<>>
    ELSE IF Len(parts) = 1 THEN parts[1]
    ELSE parts[1] \o <<"\n">> \o JoinLines(Tail(parts))

\* The list `parts` after the for-loop over the rounds.
RECURSIVE HistoryParts(_)
HistoryParts(rs) ==
    IF rs = <<>> THEN <<>> ELSE RoundParts(Head(rs)) \o HistoryParts(Tail(rs))

\* DebateResult.format_history
format_history(rs) == JoinLines(HistoryParts(rs))

\* The fixed texts of the debate prompt (Hangul romanised).
H_ORIGINAL_PLAN == "## wonbon gyehoek"
H_DEBATE_SO_FAR == "## jigeumkkajiui toron"
H_REQUEST == " yocheong"
H_USER_REQUEST == "**sayongja yocheong**: teukhi '"
H_FOCUS_ON == "'e daehae jipjungjeogeuro nonuihaejwo."
H_INSTRUCTIONS == "sangdaebang(dareun model)ui ijeon uigyeoneul ilgo eungdaphaejwo. ..."

\* focus_instruction of _build_debate_prompt.
FocusInstruction(user_focus) ==
    IF StrTruthy(user_focus)
    THEN <<"\n\n", H_USER_REQUEST, user_focus[1], H_FOCUS_ON, "\n">>
    ELSE <<>>

\* Variant: the directive is inserted for every focus other than None.
FocusInstructionIfNotNone(user_focus) ==
    IF user_focus # None
    THEN <<"\n\n", H_USER_REQUEST, user_focus[1], H_FOCUS_ON, "\n">>
    ELSE <<>>

\* The f-string of _build_debate_prompt with a given focus_instruction.
DebatePrompt(plan_content, history, round_number, focus_instruction) ==
    <<H_ORIGINAL_PLAN, "\n", plan_content, "\n\n", H_DEBATE_SO_FAR, "\n">>
    \o history
    \o <<"\n\n", "## Round ", Str(round_number), H_REQUEST>>
    \o focus_instruction
    \o <<"\n\n", H_INSTRUCTIONS>>

\* Variant: `if user_focus is not None`.
_build_debate_prompt_focus_not_none(plan_content, history, round_number, user_focus) ==
    DebatePrompt(plan_content, history, round_number, FocusInstructionIfNotNone(user_focus))

\* DebateEngine._build_debate_prompt
_build_debate_prompt(plan_content, history, round_number, user_focus) ==
    DebatePrompt(plan_content, history, round_number, FocusInstruction(user_focus))

\* The plan text and the focus arguments handed to continue_debate.
PlanContent == "the plan under review"
UserFocuses == {None, Some(""), Some("error handling")}

\* What the two calls of one reviewer.review may do in the debate model
\* (None: the wait on that call expires).
DebateFutures(party) ==
    IF party = "GPT"
    THEN {None,
          Some([kind |-> "return", content |-> "GPT works", cls |-> "", message |-> <<>>]),
          Some([kind |-> "return", content |-> "", cls |-> "", message |-> <<>>])}
    ELSE {None,
          Some([kind |-> "return", content |-> "Claude works", cls |-> "", message |-> <<>>]),
          Some([kind |-> "raise", content |-> "", cls |-> "ClaudeError",
                message |-> <<"Mock failure">>])}

\* self.reviewer.review(prompt, context): the result of the two-party review
\* whose calls did `gpt` and `claude`; the contents are strings, so no
\* conflict detection is done on them here.
ReviewerReview(gpt, claude) ==
    LET t == EffectiveTimeout(None, DEFAULT_TIMEOUT)
        g == PartyOutcome("GPT", gpt, t)
        c == PartyOutcome("Claude", claude, t)
    IN  [gpt_review |-> g.review, claude_review |-> c.review,
         gpt_error |-> g.error, claude_error |-> c.error]

\* parallel_result.gpt_review.content if parallel_result.gpt_review else None
ContentOrNone(review) == IF review # None THEN Some(review[1].content) ELSE None

\* Variant: the errors of the review are not copied into the round.
RoundOfDroppingErrors(n, parallel_result) ==
    DebateRound(n, ContentOrNone(parallel_result.gpt_review),
                ContentOrNone(parallel_result.claude_review), None, None)

\* The DebateRound built from a review result.
RoundOf(n, parallel_result) ==
    DebateRound(n, ContentOrNone(parallel_result.gpt_review),
                ContentOrNone(parallel_result.claude_review),
                parallel_result.gpt_error, parallel_result.claude_error)

\* Variant: round numbers start at 0.
FirstRoundNumberedZero(parallel_result) == RoundOf(0, parallel_result)

\* round1 = DebateRound(round_number=1, ...) in start()
FirstRound(parallel_result) == RoundOf(1, parallel_result)

\* Variant: the comparison with the cap is strict.
ContinueRejectsAboveCap(rs) == round_count(rs) > MAX_ROUNDS

\* Variant: a round in which both reviewers answered closes the debate.
ContinueRejectsWhenAnswered(rs) ==
    \/ round_count(rs) >= MAX_ROUNDS
    \/ /\ rs # <<>>
       /\ rs[Len(rs)].gpt_response # None
       /\ rs[Len(rs)].claude_response # None

\* `if debate_result.round_count >= self.MAX_ROUNDS`
ContinueRejects(rs) == round_count(rs) >= MAX_ROUNDS

\* Variant: the new round is put in front.
PrependRound(rs, r) == <<r>> \o rs

\* debate_result.rounds.append(new_round)
AppendRound(rs, r) == Append(rs, r)

-----------------------------------------------------------------------------
(* Debate engine: state machine *)

\* A session built by the caller: n rounds numbered 1..n with empty
\* responses and no errors.
GivenSession(n) == [i \in 1..n |-> DebateRound(i, Some(""), Some(""), None, None)]

\* Either no session yet, or a session the caller built around the cap.
DebateInit ==
    /\ \/ /\ d_pc = "new"
          /\ d_origin = "none"
          /\ rounds = <<>>
       \/ /\ d_pc = "session"
          /\ d_origin = "given"
          /\ rounds \in {GivenSession(n) : n \in (MAX_ROUNDS - 1)..(MAX_ROUNDS + 1)}
    /\ d_last = "none"
    /\ d_calls = 0
    /\ d_history = None
    /\ d_focus = None
    /\ d_prompt = None
    /\ d_review = None

\* DebateEngine.start
Start ==
    /\ d_pc = "new"
    /\ \E gpt \in DebateFutures("GPT"), claude \in DebateFutures("Claude") :
           LET parallel_result == ReviewerReview(gpt, claude) IN
           /\ d_review' = Some(parallel_result)
           /\ rounds' = <<FirstRound(parallel_result)>>
    /\ d_calls' = d_calls + 1
    /\ d_pc' = "session"
    /\ d_origin' = "start"
    /\ d_last' = "started"
    /\ UNCHANGED <<d_history, d_focus, d_prompt>>
    /\ UNCHANGED notDebateVars

\* DebateEngine.continue_debate
ContinueDebate ==
    /\ d_pc = "session"
    /\ IF ContinueRejects(rounds)
       THEN /\ d_last' = "ValueError"
            /\ UNCHANGED <<rounds, d_calls, d_history, d_focus, d_prompt, d_review>>
       ELSE /\ \E gpt \in DebateFutures("GPT"), claude \in DebateFutures("Claude") :
                   LET next_round == round_count(rounds) + 1
                       parallel_result == ReviewerReview(gpt, claude)
                       new_round == RoundOf(next_round, parallel_result)
                   IN  /\ d_review' = Some(parallel_result)
                       /\ rounds' = AppendRound(rounds, new_round)
            /\ d_history' = Some(format_history(rounds))
            /\ \E user_focus \in UserFocuses :
                   /\ d_focus' = user_focus
                   /\ d_prompt' = Some(_build_debate_prompt(PlanContent,
                                      format_history(rounds),
                                      round_count(rounds) + 1, user_focus))
            /\ d_calls' = d_calls + 1
            /\ d_last' = "appended"
    /\ UNCHANGED <<d_pc, d_origin>>
    /\ UNCHANGED notDebateVars

DebateNext ==
    \/ Start
    \/ ContinueDebate

DebateSpecInit == DebateInit /\ FanoutIdle /\ ScorerIdle /\ PairIdle /\ LoopIdle /\ CliIdle /\ CheckpointIdle /\ WorkflowIdle /\ ClientIdle /\ HistoryIdle /\ TimeoutIdle

DebateSpec == DebateSpecInit /\ [][DebateNext]_vars

-----------------------------------------------------------------------------
(* Properties of the debate engine (checked under DebateSpec) *)

\* C13: continue_debate on a session whose round_count is at least the cap
\* fails with ValueError, invokes no reviewer and leaves the rounds
\* unchanged; no call ever appends a round beyond the fifth.
C13_ContinueAtCapRejected ==
    [][/\ (d_pc = "session" /\ round_count(rounds) >= MAX_ROUNDS) =>
              /\ d_last' = "ValueError"
              /\ d_calls' = d_calls
              /\ rounds' = rounds
       /\ Len(rounds') > Len(rounds) => Len(rounds') <= MAX_ROUNDS]_vars

\* C13 case: a caller-built session of six rounds was handed to
\* continue_debate and rejected without any reviewer call.
C13_Witness ==
    /\ d_origin = "given"
    /\ round_count(rounds) = MAX_ROUNDS + 1
    /\ d_last = "ValueError"
    /\ d_calls = 0

\* C14: after start followed by any sequence of continue_debate calls,
\* 1 <= round_count <= 5 and the i-th round has round_number i; once
\* round_count = 5 every further continue is rejected and the session never
\* changes again.
C14_StartedSessionWithinCap ==
    [][/\ d_origin' = "start" =>
              /\ 1 <= round_count(rounds')
              /\ round_count(rounds') <= MAX_ROUNDS
              /\ \A i \in 1..Len(rounds') : rounds'[i].round_number = i
       /\ (d_origin = "start" /\ round_count(rounds) = MAX_ROUNDS) =>
              /\ d_last' = "ValueError"
              /\ rounds' = rounds]_vars

\* C14 case: a started session was continued to the cap and a further
\* continue was rejected.
C14_Witness ==
    /\ d_origin = "start"
    /\ round_count(rounds) = MAX_ROUNDS
    /\ d_calls = MAX_ROUNDS
    /\ d_last = "ValueError"

\* C15: a successful continue_debate appends exactly one round, numbered
\* previous round_count + 1, at the end and leaves every earlier round and
\* their order unchanged.
C15_ContinueAppendsOneRound ==
    [][(d_pc = "session" /\ d_last' = "appended") =>
           /\ Len(rounds') = Len(rounds) + 1
           /\ rounds'[Len(rounds')].round_number = round_count(rounds) + 1
           /\ \A i \in 1..Len(rounds) : rounds'[i] = rounds[i]]_vars

\* C15 case: a third round was appended to a started session.
C15_Witness ==
    /\ d_origin = "start"
    /\ d_last = "appended"
    /\ round_count(rounds) = 3
    /\ rounds[3].round_number = 3

\* The round made by the last start / continue_debate call.
latest_round == rounds[Len(rounds)]

\* C16: start and continue_debate never fail because a reviewer failed: the
\* round is still created or appended, with a null response and the recorded
\* error for each failed reviewer, and it counts toward round_count.
C16_FailedReviewersStillMakeARound ==
    /\ d_last \in {"started", "appended"} =>
           LET parallel_result == d_review[1] IN
           /\ rounds # <<>>
           /\ parallel_result.gpt_review = None =>
                  /\ latest_round.gpt_response = None
                  /\ latest_round.gpt_error # None
                  /\ latest_round.gpt_error = parallel_result.gpt_error
           /\ parallel_result.claude_review = None =>
                  /\ latest_round.claude_response = None
                  /\ latest_round.claude_error # None
                  /\ latest_round.claude_error = parallel_result.claude_error
    /\ d_last \in {"none", "started", "appended", "ValueError"}
    /\ d_last = "ValueError" => round_count(rounds) >= MAX_ROUNDS
    /\ d_origin = "start" => round_count(rounds) = d_calls

\* C16 case: five rounds, in the last of which GPT timed out and Claude
\* failed.
C16_Witness ==
    /\ d_origin = "start"
    /\ d_last = "appended"
    /\ round_count(rounds) = MAX_ROUNDS
    /\ latest_round.gpt_response = None
    /\ latest_round.claude_response = None
    /\ latest_round.gpt_error = Some(PartyTimedOut("GPT", 450))
    /\ latest_round.claude_error = Some(<<"Mock failure">>)

\* The numbers that follow the "## Round " pieces of a text, in order.
RECURSIVE RoundHeaders(_)
RoundHeaders(text) ==
    IF Len(text) < 2 THEN <<>>
    ELSE (IF text[1] = "## Round " THEN <<text[2]>> ELSE <<>>)
         \o RoundHeaders(Tail(text))

\* C32: the prompt continue_debate sends for round k+1 contains the
\* original subject, the transcript format_history renders of exactly the
\* k prior rounds (its round blocks headed 1..k in order), then the header
\* of round k+1, and the focus directive, quoting the focus, if and only
\* if a non-empty focus string was passed.
C32_PromptHoldsSubjectTranscriptHeaderFocus ==
    d_prompt # None =>
        LET prompt == d_prompt[1]
            k == Len(rounds) - 1
            prior == SubSeq(rounds, 1, k)
        IN  /\ Contains(<<H_ORIGINAL_PLAN, "\n", PlanContent, "\n\n">>, prompt)
            /\ Contains(<<H_DEBATE_SO_FAR, "\n">> \o format_history(prior)
                            \o <<"\n\n", "## Round ", Str(k + 1), H_REQUEST>>, prompt)
            /\ RoundHeaders(prompt) = [i \in 1..(k + 1) |-> Str(i)]
            /\ Contains(<<H_USER_REQUEST>>, prompt)
                   <=> (d_focus # None /\ d_focus[1] # "")
            /\ (d_focus # None /\ d_focus[1] # "") =>
                   Contains(<<"## Round ", Str(k + 1), H_REQUEST, "\n\n",
                              H_USER_REQUEST, d_focus[1], H_FOCUS_ON>>, prompt)

\* C32 case: the prompt of round 3 with a focus, after two rounds.
C32_Witness ==
    /\ d_last = "appended"
    /\ Len(rounds) = 3
    /\ d_focus = Some("error handling")
    /\ RoundHeaders(d_prompt[1]) = <<"1", "2", "3">>

\* C32 case: an empty focus string was passed and the prompt has no
\* directive.
C32_WitnessEmptyFocus ==
    /\ d_last = "appended"
    /\ d_focus = Some("")
    /\ ~Contains(<<H_USER_REQUEST>>, d_prompt[1])

\* A reviewer's section as the transcript should show it: the response
\* whenever it is non-null, the placeholder only when it is null.
Section(response, error) ==
    IF response # None THEN <<response[1]>>
    ELSE <<"*Error: ">> \o FormatOptional(error) \o <<"*">>

\* The lines of the transcript of `rs`: six per round, in round order.
TranscriptLines(rs) ==
    [k \in 1..(6 * Len(rs)) |->
        LET r == rs[((k - 1) \div 6) + 1] IN
        CASE k % 6 = 1 -> <<"## Round ", Str(r.round_number)>>
          [] k % 6 = 2 -> <<"### GPT">>
          [] k % 6 = 3 -> Section(r.gpt_response, r.gpt_error)
          [] k % 6 = 4 -> <<"### Claude">>
          [] k % 6 = 5 -> Section(r.claude_response, r.claude_error)
          [] OTHER -> <<>>]

\* The rounds that existed when the last accepted continue_debate rendered
\* the history.
RenderedRounds == SubSeq(rounds, 1, Len(rounds) - 1)

\* C17: format_history renders one 'Round N' block per round in round order,
\* and a reviewer's section shows that reviewer's own response whenever it is
\* non-null (an empty text included) and the '*Error: <msg>*' placeholder
\* only when the response is null.
C17_HistoryShowsEveryNonNullResponse ==
    d_history # None => d_history[1] = JoinLines(TranscriptLines(RenderedRounds))

\* C18: whether continue_debate is permitted depends only on round_count
\* versus the cap, never on the content of responses or errors: sessions of
\* equal round_count are all accepted or all rejected, and a session below
\* the cap is never closed by the engine.
SameCountSessions(rs) ==
    {[i \in 1..Len(rs) |-> RoundOf(i, ReviewerReview(gpt, claude))] :
        gpt \in DebateFutures("GPT"), claude \in DebateFutures("Claude")}

C18_PermissionDependsOnCountOnly ==
    [][d_pc = "session" =>
           /\ d_last' \in {"appended", "ValueError"}
           /\ (d_last' = "ValueError") = (round_count(rounds) >= MAX_ROUNDS)
           /\ \A s \in SameCountSessions(rounds) :
                  ContinueRejects(s) = ContinueRejects(rounds)]_vars

\* C18 case: both reviewers answered without error in round 2 and the
\* engine still accepted a further round.
C18_Witness ==
    /\ d_last = "appended"
    /\ round_count(rounds) = 3
    /\ rounds[2].gpt_response = Some("GPT works")
    /\ rounds[2].claude_response = Some("Claude works")
    /\ rounds[2].gpt_error = None
    /\ rounds[2].claude_error = None

-----------------------------------------------------------------------------
(* Loop checkpoint (src/core/parallel_review.py): LoopState, LoopManager   *)
(* and the JSON conversion between them and the state file.               *)
(*                                                                         *)
(* A Python value is a one-field record named after its type: [int |-> n], *)
(* [str |-> s], [bool |-> b], [none |-> TRUE], [list |-> <<...>>],         *)
(* [dict |-> <<<<key, value>>, ...>>] (insertion order).  A JSON value is  *)
(* [number |-> [neg, digits]], [string |-> s], [literal |-> "true" /       *)
(* "false" / "null"], [array |-> <<...>>], [object |-> <<<<name, value>>,  *)
(* ...>>] with names that are strings.                                     *)

MaxHistory == 2        \* longest history list add_to_history builds
MaxIteration == 2      \* largest iteration the caller counts up to

PyInt(n) == [int |-> n]
PyStr(s) == [str |-> s]
PyBool(b) == [bool |-> b]
PyNone == [none |-> TRUE]
PyList(items) == [list |-> items]
PyDict(pairs) == [dict |-> pairs]

IsA(v, type) == DOMAIN v = {type}

\* Decimal digits of a natural number, most significant first.
RECURSIVE Digits(_)
Digits(n) == IF n < 10 THEN <<n>> ELSE Digits(n \div 10) \o <<n % 10>>

\* The natural number a digit sequence denotes.
RECURSIVE DigitsValue(_)
DigitsValue(ds) ==
    IF ds = <<>> THEN 0
    ELSE 10 * DigitsValue(SubSeq(ds, 1, Len(ds) - 1)) + ds[Len(ds)]

\* The JSON name json.dumps writes for a dict key.
KeyName(k) ==
    IF IsA(k, "str") THEN k.str
    ELSE IF IsA(k, "int") THEN Str(k.int)
    ELSE IF IsA(k, "bool") THEN (IF k.bool THEN "true" ELSE "false")
    ELSE "null"

\* json.dumps: the JSON value written for a Python value.
RECURSIVE dumps(_)
dumps(v) ==
    IF IsA(v, "int") THEN
        [number |-> [neg |-> v.int < 0,
                     digits |-> Digits(IF v.int < 0 THEN -v.int ELSE v.int)]]
    ELSE IF IsA(v, "str") THEN [string |-> v.str]
    ELSE IF IsA(v, "bool") THEN [literal |-> IF v.bool THEN "true" ELSE "false"]
    ELSE IF IsA(v, "none") THEN [literal |-> "null"]
    ELSE IF IsA(v, "list") THEN
        [array |-> [i \in 1..Len(v.list) |-> dumps(v.list[i])]]
    ELSE
        [object |-> [i \in 1..Len(v.dict) |->
                        <<KeyName(v.dict[i][1]), dumps(v.dict[i][2])>>]]

\* The members of a JSON object as json.loads keeps them: for a repeated
\* name the last value, at the position of its first occurrence.
RECURSIVE LastWins(_)
LastWins(members) ==
    IF members = <<>> THEN <<>>
    ELSE LET last == members[Len(members)]
             before == SubSeq(members, 1, Len(members) - 1)
         IN  IF \E i \in 1..Len(before) : before[i][1] = last[1]
             THEN LastWins([i \in 1..Len(before) |->
                               IF before[i][1] = last[1] THEN last ELSE before[i]])
             ELSE Append(LastWins(before), last)

\* json.loads: the Python value read from a JSON value.
RECURSIVE loads(_)
loads(j) ==
    IF IsA(j, "number") THEN
        PyInt(IF j.number.neg THEN -DigitsValue(j.number.digits)
                              ELSE DigitsValue(j.number.digits))
    ELSE IF IsA(j, "string") THEN PyStr(j.string)
    ELSE IF IsA(j, "literal") THEN
        (IF j.literal = "null" THEN PyNone ELSE PyBool(j.literal = "true"))
    ELSE IF IsA(j, "array") THEN
        PyList([i \in 1..Len(j.array) |-> loads(j.array[i])])
    ELSE
        LET members == LastWins(j.object) IN
        PyDict([i \in 1..Len(members) |->
                   <<PyStr(members[i][1]), loads(members[i][2])>>])

\* LoopState(iteration, max_iterations, phase, last_conflicts, resolved, history)
LoopState(iteration, max_iterations, phase, last_conflicts, resolved, history) ==
    [iteration |-> iteration, max_iterations |-> max_iterations, phase |-> phase,
     last_conflicts |-> last_conflicts, resolved |-> resolved, history |-> history]

\* LoopState(): the field defaults.
DefaultLoopState ==
    LoopState(PyInt(1), PyInt(5), PyStr("plan_review"), PyList(<<>>),
              PyBool(FALSE), PyList(<<>>))

\* LoopState.to_dict
to_dict(state) ==
    PyDict(<< <<PyStr("iteration"), state.iteration>>,
              <<PyStr("max_iterations"), state.max_iterations>>,
              <<PyStr("phase"), state.phase>>,
              <<PyStr("last_conflicts"), state.last_conflicts>>,
              <<PyStr("resolved"), state.resolved>>,
              <<PyStr("history"), state.history>> >>)

\* Variant: the stored value is ignored.
GetIgnoringStored(data, key, default) == default

\* data.get(key, default) on a dict
Get(data, key, default) ==
    LET at == {i \in 1..Len(data.dict) : data.dict[i][1] = PyStr(key)} IN
    IF at = {} THEN default ELSE data.dict[CHOOSE i \in at : TRUE][2]

\* Variant: the history is not read back.
from_dict_without_history(data) ==
    LoopState(Get(data, "iteration", PyInt(1)),
              Get(data, "max_iterations", PyInt(5)),
              Get(data, "phase", PyStr("plan_review")),
              Get(data, "last_conflicts", PyList(<<>>)),
              Get(data, "resolved", PyBool(FALSE)),
              PyList(<<>>))

\* LoopState.from_dict, for a `data` that is a dict
from_dict(data) ==
    LoopState(Get(data, "iteration", PyInt(1)),
              Get(data, "max_iterations", PyInt(5)),
              Get(data, "phase", PyStr("plan_review")),
              Get(data, "last_conflicts", PyList(<<>>)),
              Get(data, "resolved", PyBool(FALSE)),
              Get(data, "history", PyList(<<>>)))

\* The content of the state file: JSON text (by the value it denotes), text
\* that is not JSON, or bytes that read_text cannot decode.
JsonFile(j) == [json |-> j]
GarbageFile == [garbage |-> "not json {"]
UndecodableFile == [undecodable |-> "0xff"]

\* LoopManager.load_or_create on the file `file`: the exception that
\* escapes ("" if none) and the state returned.
load_or_create(file) ==
    IF file = None
    THEN [raised |-> "", state |-> Some(DefaultLoopState)]
    ELSE IF IsA(file[1], "undecodable")
    THEN [raised |-> "UnicodeDecodeError", state |-> None]
    ELSE IF IsA(file[1], "garbage")
    THEN [raised |-> "", state |-> Some(DefaultLoopState)]
    ELSE LET data == loads(file[1].json) IN
         IF IsA(data, "dict")
         THEN [raised |-> "", state |-> Some(from_dict(data))]
         ELSE [raised |-> "AttributeError", state |-> None]

\* The file LoopManager.save writes for `state`.
SavedFile(state) == JsonFile(dumps(to_dict(state)))

\* details or {}
DetailsOrEmpty(details) ==
    IF IsA(details, "none") \/ details = PyDict(<<>>) THEN PyDict(<<>>) ELSE details

\* Variant: the entry is tagged with the default iteration and phase.
HistoryEntryUntagged(state, event, details) ==
    PyDict(<< <<PyStr("iteration"), PyInt(1)>>,
              <<PyStr("phase"), PyStr("plan_review")>>,
              <<PyStr("event"), PyStr(event)>>,
              <<PyStr("details"), DetailsOrEmpty(details)>> >>)

\* The entry add_to_history appends.
HistoryEntry(state, event, details) ==
    PyDict(<< <<PyStr("iteration"), state.iteration>>,
              <<PyStr("phase"), state.phase>>,
              <<PyStr("event"), PyStr(event)>>,
              <<PyStr("details"), DetailsOrEmpty(details)>> >>)

-----------------------------------------------------------------------------
(* Loop checkpoint: state machine *)

\* States a caller constructs directly.
GivenStates ==
    {DefaultLoopState,
     LoopState(PyInt(3), PyInt(5), PyStr("code_review"), PyList(<<>>),
               PyBool(FALSE), PyList(<<>>)),
     LoopState(PyInt(12), PyInt(20), PyStr("test"), PyList(<<PyStr("conflict1")>>),
               PyBool(TRUE), PyList(<<>>))}

\* `details` arguments of add_to_history.
GivenDetails == {PyNone, PyDict(<< <<PyStr("detail"), PyStr("value")>> >>)}

\* Files found at state_path before the manager wrote any: none, text that
\* is not JSON, undecodable bytes, JSON that is not an object ("[]", "null"),
\* the empty object, an object with some fields and one with all fields.
InitialFiles ==
    {None,
     Some(GarbageFile),
     Some(UndecodableFile),
     Some(JsonFile([array |-> <<>>])),
     Some(JsonFile([literal |-> "null"])),
     Some(JsonFile([object |-> <<>>])),
     Some(JsonFile([object |-> << <<"iteration", [number |-> [neg |-> FALSE, digits |-> <<2>>]]>>,
                                  <<"phase", [string |-> "test"]>> >>])),
     Some(JsonFile([object |-> << <<"iteration", [number |-> [neg |-> FALSE, digits |-> <<2>>]]>>,
                                  <<"max_iterations", [number |-> [neg |-> FALSE, digits |-> <<1, 0>>]]>>,
                                  <<"phase", [string |-> "test"]>>,
                                  <<"last_conflicts", [array |-> <<[string |-> "conflict1"]>>]>>,
                                  <<"resolved", [literal |-> "false"]>>,
                                  <<"history", [array |-> <<[object |-> << <<"event", [string |-> "start"]>> >>]>>]>> >>]))}

LoopInit ==
    /\ l_file \in InitialFiles
    /\ l_state = None
    /\ l_saved = None
    /\ l_last = "none"
    /\ l_prev = "none"

\* The caller constructs a LoopState.
NewLoopState ==
    /\ \E state \in GivenStates : l_state' = Some(state)
    /\ l_last' = "LoopState"
    /\ l_prev' = l_last
    /\ UNCHANGED <<l_file, l_saved>>
    /\ UNCHANGED notLoopVars

\* state = manager.load_or_create()
LoadOrCreate ==
    /\ LET loaded == load_or_create(l_file) IN
       IF loaded.raised # ""
       THEN /\ l_last' = loaded.raised
            /\ UNCHANGED l_state
       ELSE /\ l_last' = "load_or_create"
            /\ l_state' = loaded.state
    /\ l_prev' = l_last
    /\ UNCHANGED <<l_file, l_saved>>
    /\ UNCHANGED notLoopVars

\* manager.save(state)
Save ==
    /\ l_state # None
    /\ l_file' = Some(SavedFile(l_state[1]))
    /\ l_saved' = l_state
    /\ l_last' = "save"
    /\ l_prev' = l_last
    /\ UNCHANGED l_state
    /\ UNCHANGED notLoopVars

\* Variant: reset leaves the file in place.
FileAfterResetKept(file) == file

\* if self.state_path.exists(): self.state_path.unlink()
FileAfterReset(file) == IF file # None THEN None ELSE file

\* manager.reset()
Reset ==
    /\ l_file' = FileAfterReset(l_file)
    /\ l_saved' = IF FileAfterReset(l_file) = None THEN None ELSE l_saved
    /\ l_last' = "reset"
    /\ l_prev' = l_last
    /\ UNCHANGED l_state
    /\ UNCHANGED notLoopVars

\* manager.add_to_history(state, event, details)
AddToHistory ==
    /\ l_state # None
    /\ Len(l_state[1].history.list) < MaxHistory
    /\ \E details \in GivenDetails :
           l_state' = Some([l_state[1] EXCEPT !.history =
               PyList(Append(@.list, HistoryEntry(l_state[1], "test_event", details)))])
    /\ l_last' = "add_to_history"
    /\ l_prev' = l_last
    /\ UNCHANGED <<l_file, l_saved>>
    /\ UNCHANGED notLoopVars

\* state.iteration += 1 (the caller, between load_or_create and save)
NextIteration ==
    /\ l_state # None
    /\ IsA(l_state[1].iteration, "int")
    /\ l_state[1].iteration.int < MaxIteration
    /\ l_state' = Some([l_state[1] EXCEPT !.iteration = PyInt(@.int + 1)])
    /\ l_last' = "iteration += 1"
    /\ l_prev' = l_last
    /\ UNCHANGED <<l_file, l_saved>>
    /\ UNCHANGED notLoopVars

LoopManagerNext ==
    \/ NewLoopState
    \/ LoadOrCreate
    \/ Save
    \/ Reset
    \/ AddToHistory
    \/ NextIteration

LoopSpecInit == LoopInit /\ FanoutIdle /\ ScorerIdle /\ PairIdle /\ DebateIdle /\ CliIdle /\ CheckpointIdle /\ WorkflowIdle /\ ClientIdle /\ HistoryIdle /\ TimeoutIdle

LoopSpec == LoopSpecInit /\ [][LoopManagerNext]_vars

-----------------------------------------------------------------------------
(* Properties of the loop checkpoint (checked under LoopSpec) *)

NoUsableFile ==
    \/ l_file = None
    \/ IsA(l_file[1], "garbage")
    \/ IsA(l_file[1], "undecodable")
    \/ ~IsA(l_file[1].json, "object")

\* C20: load_or_create never raises to the caller: it returns the default
\* state when no file exists and also when the file is corrupt, unreadable
\* or malformed (unparsable text, or well-formed JSON that is not an
\* object).
C20_LoadOrCreateNeverRaises ==
    /\ l_last \notin {"AttributeError", "UnicodeDecodeError"}
    /\ (l_last = "load_or_create" /\ NoUsableFile) => l_state = Some(DefaultLoopState)

\* The stored value of member `name` of the JSON object in the file, None
\* if the object has no such member.
Stored(name) ==
    LET members == l_file[1].json.object
        at == {i \in 1..Len(members) : members[i][1] = name}
    IN  IF at = {} THEN None ELSE Some(loads(members[CHOOSE i \in at : TRUE][2]))

\* The value a loaded field must have: the stored one, else the default.
StoredOr(name, default) == IF Stored(name) = None THEN default ELSE Stored(name)[1]

\* The file holds a JSON object.
FileIsObject ==
    /\ l_file # None
    /\ IsA(l_file[1], "json")
    /\ IsA(l_file[1].json, "object")

\* C21: loading a persisted record that lacks some fields yields the
\* documented default for each missing field (iteration 1, max_iterations 5,
\* phase 'plan_review', resolved false, empty lists) and the persisted value
\* for each field that is present.
C21_MissingFieldsDefault ==
    (l_last = "load_or_create" /\ FileIsObject) =>
        /\ l_state # None
        /\ l_state[1].iteration = StoredOr("iteration", PyInt(1))
        /\ l_state[1].max_iterations = StoredOr("max_iterations", PyInt(5))
        /\ l_state[1].phase = StoredOr("phase", PyStr("plan_review"))
        /\ l_state[1].last_conflicts = StoredOr("last_conflicts", PyList(<<>>))
        /\ l_state[1].resolved = StoredOr("resolved", PyBool(FALSE))
        /\ l_state[1].history = StoredOr("history", PyList(<<>>))

\* C21 case: the file holds only iteration 2 and phase "test".
C21_Witness ==
    /\ l_last = "load_or_create"
    /\ FileIsObject
    /\ Len(l_file[1].json.object) = 2
    /\ l_state # None
    /\ l_state[1].iteration = PyInt(2)
    /\ l_state[1].phase = PyStr("test")
    /\ l_state[1].max_iterations = PyInt(5)
    /\ l_state[1].resolved = PyBool(FALSE)
    /\ l_state[1].history = PyList(<<>>)

\* The entry at the end of the caller's history list.
LastEntry(state) == state.history.list[Len(state.history.list)]

\* The value of key `key` in a dict entry.
EntryValue(entry, key) ==
    entry.dict[CHOOSE i \in 1..Len(entry.dict) : entry.dict[i][1] = PyStr(key)][2]

\* C22: add_to_history appends exactly one entry {iteration, phase, event,
\* details} carrying the state's iteration and phase at the moment of the
\* call, leaves all earlier entries and all other fields unchanged, and does
\* not touch the persisted file: what load_or_create returns is what it
\* returned before the call, without the event.
C22_AddToHistoryAppendsInMemory ==
    [][(l_last' = "add_to_history" /\ l_state' # l_state) =>
           LET before == l_state[1]
               after == l_state'[1]
           IN  /\ Len(after.history.list) = Len(before.history.list) + 1
               /\ \A i \in 1..Len(before.history.list) :
                      after.history.list[i] = before.history.list[i]
               /\ {LastEntry(after).dict[i][1] : i \in 1..Len(LastEntry(after).dict)} =
                      {PyStr("iteration"), PyStr("phase"), PyStr("event"), PyStr("details")}
               /\ Len(LastEntry(after).dict) = 4
               /\ EntryValue(LastEntry(after), "iteration") = before.iteration
               /\ EntryValue(LastEntry(after), "phase") = before.phase
               /\ EntryValue(LastEntry(after), "event") = PyStr("test_event")
               /\ EntryValue(LastEntry(after), "details") \in
                      {PyDict(<<>>), PyDict(<< <<PyStr("detail"), PyStr("value")>> >>)}
               /\ after.iteration = before.iteration
               /\ after.max_iterations = before.max_iterations
               /\ after.phase = before.phase
               /\ after.last_conflicts = before.last_conflicts
               /\ after.resolved = before.resolved
               /\ l_file' = l_file
               /\ load_or_create(l_file') = load_or_create(l_file)
               /\ l_saved = l_state =>
                      load_or_create(l_file').state = Some(before)]_vars

\* C22 case: the state was saved with one entry, the caller counted the
\* iteration up to 2 and added a second entry, which carries iteration 2;
\* the file still holds the state as saved.
C22_Witness ==
    /\ l_last = "add_to_history"
    /\ l_saved # None
    /\ Len(l_saved[1].history.list) = 1
    /\ Len(l_state[1].history.list) = 2
    /\ Len(l_state[1].history.list[1].dict) = 4
    /\ EntryValue(l_state[1].history.list[1], "iteration") = PyInt(1)
    /\ EntryValue(LastEntry(l_state[1]), "iteration") = PyInt(2)
    /\ load_or_create(l_file).state = l_saved

\* C23: after reset, load_or_create returns the default state whatever was
\* saved before; reset when no state file exists changes nothing and raises
\* nothing.
C23_ResetThenLoadIsDefault ==
    [][/\ (l_last = "reset" /\ l_last' = "load_or_create") =>
              l_state' = Some(DefaultLoopState)
       /\ l_last = "reset" => l_last' \notin {"AttributeError", "UnicodeDecodeError"}
       /\ (l_last' = "reset" /\ l_prev' = l_last) =>
              /\ l_file' = None
              /\ l_file = None => (l_state' = l_state /\ l_saved' = l_saved)]_vars

\* C23 case: a non-default state was saved and reset was called right
\* after; the file is gone and load_or_create now returns the default state.
C23_Witness ==
    /\ l_prev = "save"
    /\ l_last = "reset"
    /\ l_state # None
    /\ l_state # Some(DefaultLoopState)
    /\ l_file = None
    /\ load_or_create(l_file) = [raised |-> "", state |-> Some(DefaultLoopState)]

-----------------------------------------------------------------------------
(* Debate commands (src/scripts/debate.py): the session file and the      *)
(* commands start, continue, status and reset, each a process of its own. *)
(* A round read from the file holds Python values as the loop checkpoint   *)
(* does.                                                                   *)

\* An Optional text of the engine as a Python value (None / str).
PyOptional(opt) == IF opt = None THEN PyNone ELSE PyStr(opt[1])

\* The DebateRound the engine made, as the Python object the commands hold.
PyRound(r) ==
    DebateRound(PyInt(r.round_number), PyOptional(r.gpt_response),
                PyOptional(r.claude_response), PyOptional(r.gpt_error),
                PyOptional(r.claude_error))

\* The dict save_state writes for one round.
RoundDict(r) ==
    PyDict(<< <<PyStr("round_number"), r.round_number>>,
              <<PyStr("gpt_response"), r.gpt_response>>,
              <<PyStr("claude_response"), r.claude_response>>,
              <<PyStr("gpt_error"), r.gpt_error>>,
              <<PyStr("claude_error"), r.claude_error>> >>)

\* Variant: the errors are not written.
save_state_without_errors(rs) ==
    JsonFile(dumps(PyDict(<< <<PyStr("rounds"),
        PyList([i \in 1..Len(rs) |->
                   RoundDict([rs[i] EXCEPT !.gpt_error = PyNone,
                                           !.claude_error = PyNone])])>> >>)))

\* save_state: the file written for the rounds `rs`.
save_state(rs) ==
    JsonFile(dumps(PyDict(<< <<PyStr("rounds"),
                              PyList([i \in 1..Len(rs) |-> RoundDict(rs[i])])>> >>)))

\* save_plan_review_state of src/scripts/parallel_review.py: the file
\* written to the same path for the result of one parallel plan review.
save_plan_review_state(plan_path, parallel_result) ==
    JsonFile(dumps(PyDict(<<
        <<PyStr("review_type"), PyStr("plan")>>,
        <<PyStr("plan_path"), PyStr(plan_path)>>,
        <<PyStr("rounds"),
          PyList(<<RoundDict(PyRound(RoundOf(1, parallel_result)))>>)>> >>)))

\* r.get(key): the value, or None.
GetOrNone(r, key) == Get(r, key, PyNone)

\* The exception the loop body of load_state raises for item `r` of the
\* rounds list ("" if none): r["round_number"] needs a dict with that key.
RoundItemError(r) ==
    IF ~IsA(r, "dict") THEN "TypeError"
    ELSE IF \A i \in 1..Len(r.dict) : r.dict[i][1] # PyStr("round_number")
         THEN "KeyError"
         ELSE ""

\* The DebateRound load_state builds from a dict.
RoundFromDict(r) ==
    DebateRound(Get(r, "round_number", PyNone), GetOrNone(r, "gpt_response"),
                GetOrNone(r, "claude_response"), GetOrNone(r, "gpt_error"),
                GetOrNone(r, "claude_error"))

\* The items `for r in data.get("rounds", [])` iterates over, for a value
\* that can be iterated without error ("" and {} have no items).
RoundItems(v) == IF IsA(v, "list") THEN v.list ELSE <<>>

\* The value of data.get("rounds", []) cannot be iterated, or its items
\* cannot be indexed by a key.
NotRoundList(v) ==
    ~(IsA(v, "list") \/ v = PyStr("") \/ v = PyDict(<<>>))

\* load_state of src/scripts/debate.py on the file `file`: the exception
\* that escapes ("" if none) and the value returned (None, or Some(rounds)
\* of the DebateResult).
load_state(file) ==
    IF file = None
    THEN [raised |-> "", result |-> None]
    ELSE IF IsA(file[1], "undecodable")
    THEN [raised |-> "UnicodeDecodeError", result |-> None]
    ELSE IF IsA(file[1], "garbage")
    THEN [raised |-> "JSONDecodeError", result |-> None]
    ELSE LET data == loads(file[1].json) IN
         IF ~IsA(data, "dict")
         THEN [raised |-> "AttributeError", result |-> None]
         ELSE LET v == Get(data, "rounds", PyList(<<>>))
                  items == RoundItems(v)
                  bad == {i \in 1..Len(items) : RoundItemError(items[i]) # ""}
              IN  IF NotRoundList(v)
                  THEN [raised |-> "TypeError", result |-> None]
                  ELSE IF bad # {}
                  THEN [raised |-> RoundItemError(
                                       items[CHOOSE i \in bad : \A j \in bad : i <= j]),
                        result |-> None]
                  ELSE [raised |-> "",
                        result |-> Some([i \in 1..Len(items) |-> RoundFromDict(items[i])])]

\* load_state of src/viewer/app.py: the exception that escapes and the dict
\* returned (None: no state).
viewer_load_state(file) ==
    IF file = None
    THEN [raised |-> "", result |-> None]
    ELSE IF IsA(file[1], "undecodable")
    THEN [raised |-> "UnicodeDecodeError", result |-> None]
    ELSE IF IsA(file[1], "garbage")
    THEN [raised |-> "", result |-> None]
    ELSE [raised |-> "", result |-> Some(loads(file[1].json))]

\* What the two calls of one reviewer.review may do in the command model.
CliFutures(party) ==
    IF party = "GPT"
    THEN {None,
          Some([kind |-> "return", content |-> "GPT works", cls |-> "", message |-> <<>>])}
    ELSE {Some([kind |-> "return", content |-> "Claude works", cls |-> "", message |-> <<>>]),
          Some([kind |-> "raise", content |-> "", cls |-> "ClaudeError",
                message |-> <<"Mock failure">>])}

-----------------------------------------------------------------------------
(* Debate commands: state machine *)

\* A JSON number and the JSON text of one stored round.
JsonNumber(n) == [number |-> [neg |-> FALSE, digits |-> Digits(n)]]
JsonRound(n, text) ==
    [object |-> << <<"round_number", JsonNumber(n)>>,
                   <<"gpt_response", [string |-> text]>>,
                   <<"claude_response", [literal |-> "null"]>>,
                   <<"gpt_error", [literal |-> "null"]>>,
                   <<"claude_error", [string |-> <<"Claude timed out">>]>> >>]

\* Session files found before any command ran: none, text that is not
\* JSON, undecodable bytes, JSON that is not an object, an object without
\* rounds, rounds that are not a list, a round without round_number, and a
\* well-formed session of one round with further members.
InitialSessionFiles ==
    {None,
     Some(GarbageFile),
     Some(UndecodableFile),
     Some(JsonFile([array |-> <<>>])),
     Some(JsonFile([object |-> <<>>])),
     Some(JsonFile([object |-> << <<"rounds", JsonNumber(3)>> >>])),
     Some(JsonFile([object |-> << <<"rounds", [array |-> <<
         [object |-> << <<"gpt_response", [string |-> "GPT works"]>> >>] >>]>> >>])),
     Some(JsonFile([object |-> << <<"review_type", [string |-> "plan"]>>,
                                  <<"plan_path", [string |-> "plan.md"]>>,
                                  <<"rounds", [array |-> <<JsonRound(1, "GPT works")>>]>> >>]))}

CliInit ==
    /\ c_file \in InitialSessionFiles
    /\ c_session = None
    /\ c_last = "none"

\* debate.py start <plan>
CmdStart ==
    /\ \E plan_exists \in BOOLEAN :
         IF ~plan_exists
         THEN /\ c_last' = "exit 1"
              /\ c_session' = None
              /\ UNCHANGED c_file
         ELSE \E gpt \in CliFutures("GPT"), claude \in CliFutures("Claude") :
                LET debate_result == <<PyRound(FirstRound(ReviewerReview(gpt, claude)))>> IN
                /\ c_session' = Some(debate_result)
                /\ c_file' = Some(save_state(debate_result))
                /\ c_last' = "start"
    /\ UNCHANGED notCliVars

\* debate.py continue <plan>
CmdContinue ==
    /\ LET loaded == load_state(c_file) IN
       IF loaded.raised # ""
       THEN /\ c_last' = loaded.raised
            /\ c_session' = None
            /\ UNCHANGED c_file
       ELSE IF loaded.result = None
       THEN /\ c_last' = "exit 1"
            /\ c_session' = None
            /\ UNCHANGED c_file
       ELSE LET existing == loaded.result[1] IN
            IF ContinueRejects(existing)
            THEN /\ c_last' = "exit 1"
                 /\ c_session' = loaded.result
                 /\ UNCHANGED c_file
            ELSE \E gpt \in CliFutures("GPT"), claude \in CliFutures("Claude") :
                   LET new_round == PyRound(RoundOf(round_count(existing) + 1,
                                                    ReviewerReview(gpt, claude)))
                       debate_result == AppendRound(existing, new_round)
                   IN  /\ c_session' = Some(debate_result)
                       /\ c_file' = Some(save_state(debate_result))
                       /\ c_last' = "continue"
    /\ UNCHANGED notCliVars

\* debate.py status <plan>
CmdStatus ==
    /\ LET loaded == load_state(c_file) IN
       /\ c_last' = IF loaded.raised # "" THEN loaded.raised ELSE "status"
       /\ c_session' = loaded.result
    /\ UNCHANGED c_file
    /\ UNCHANGED notCliVars

\* debate.py reset <plan>
CmdReset ==
    /\ c_file' = FileAfterReset(c_file)
    /\ c_session' = None
    /\ c_last' = "reset"
    /\ UNCHANGED notCliVars

\* parallel_review.py plan <plan>
CmdPlanReview ==
    /\ \E plan_exists \in BOOLEAN :
         IF ~plan_exists
         THEN /\ c_last' = "FileNotFoundError"
              /\ UNCHANGED c_file
         ELSE \E gpt \in CliFutures("GPT"), claude \in CliFutures("Claude") :
                /\ c_file' = Some(save_plan_review_state("plan.md",
                                                         ReviewerReview(gpt, claude)))
                /\ c_last' = "plan review"
    /\ c_session' = None
    /\ UNCHANGED notCliVars

\* The viewer reads the session file.
ViewerLoad ==
    /\ LET loaded == viewer_load_state(c_file) IN
       c_last' = IF loaded.raised # "" THEN loaded.raised ELSE "viewer"
    /\ c_session' = None
    /\ UNCHANGED c_file
    /\ UNCHANGED notCliVars

CliNext ==
    \/ CmdStart
    \/ CmdContinue
    \/ CmdStatus
    \/ CmdReset
    \/ CmdPlanReview
    \/ ViewerLoad

CliSpecInit == CliInit /\ FanoutIdle /\ ScorerIdle /\ PairIdle /\ DebateIdle /\ LoopIdle /\ CheckpointIdle /\ WorkflowIdle /\ ClientIdle /\ HistoryIdle /\ TimeoutIdle

CliSpec == CliSpecInit /\ [][CliNext]_vars

-----------------------------------------------------------------------------
(* Properties of the debate commands (checked under CliSpec) *)

\* The exceptions reading the session file can raise.
SessionLoadErrors ==
    {"UnicodeDecodeError", "JSONDecodeError", "AttributeError", "TypeError", "KeyError"}

\* C24: loading a session file that is unreadable or malformed never
\* surfaces an error to the caller of the debate commands: it is recovered
\* silently by falling back to no session.
C24_MalformedSessionRecovered == c_last \notin SessionLoadErrors

\* C25: after each successful start or continue command the session file
\* contains every round of the session, and loading it reproduces each
\* round's number, both responses and both errors exactly, so that a
\* continue after a reload numbers the new round round_count + 1.
C25_SessionFileRoundTrip ==
    [][/\ c_last' \in {"start", "continue"} =>
              /\ c_session' # None
              /\ load_state(c_file') = [raised |-> "", result |-> c_session']
       /\ (c_last' = "continue" /\ c_file' # c_file) =>
              LET before == load_state(c_file).result[1]
                  after == load_state(c_file').result[1]
              IN  /\ Len(after) = Len(before) + 1
                  /\ \A i \in 1..Len(before) : after[i] = before[i]
                  /\ after[Len(after)].round_number = PyInt(round_count(before) + 1)]_vars

\* C25 case: three rounds were made by start and two continue commands;
\* GPT timed out in the third and Claude failed in the second, and the file
\* reads back as the session.
C25_Witness ==
    /\ c_last = "continue"
    /\ c_session # None
    /\ Len(c_session[1]) = 3
    /\ c_session[1][3].gpt_response = PyNone
    /\ c_session[1][3].gpt_error = PyStr(PartyTimedOut("GPT", 450))
    /\ c_session[1][2].claude_error = PyStr(<<"Mock failure">>)
    /\ c_session[1][1].gpt_response = PyStr("GPT works")
    /\ load_state(c_file).result = c_session

\* The rounds persisted in a session file that loads (None otherwise).
PersistedRounds(file) ==
    IF load_state(file).raised = "" THEN load_state(file).result ELSE None

\* C38: across the commands start, continue, status and parallel plan
\* review the persisted session only grows by appending: whatever command
\* other than reset runs, the rounds persisted before it are still
\* persisted after it, unchanged and in the same places.
C38_PersistedRoundsOnlyAppended ==
    [][(PersistedRounds(c_file) # None /\ c_last' # "reset") =>
          LET before == PersistedRounds(c_file)[1]
              after == PersistedRounds(c_file')
          IN  /\ after # None
              /\ Len(before) <= Len(after[1])
              /\ SubSeq(after[1], 1, Len(before)) = before]_vars

\* ======================================================================
\* CheckpointManager (core/checkpoints.py): the human checkpoints.
\* ======================================================================

\* How many run_checkpoint calls a directly driven manager is followed for.
MaxCheckpointCalls == 2

\* class Decision(Enum): the values.
Decision_CONTINUE == "continue"
Decision_CONTINUE_WITH_FEEDBACK == "continue_with_feedback"
Decision_CONTINUE_WITHOUT_FEEDBACK == "continue_without_feedback"
Decision_REQUEST_MODIFICATION == "request_modification"
Decision_SKIP == "skip"
Decision_ABORT == "abort"

Decision ==
    {Decision_CONTINUE, Decision_CONTINUE_WITH_FEEDBACK,
     Decision_CONTINUE_WITHOUT_FEEDBACK, Decision_REQUEST_MODIFICATION,
     Decision_SKIP, Decision_ABORT}

\* datetime.now().isoformat(): the clock is not followed, every reading
\* is this one text.
Timestamp == "2026-01-01T00:00:00"

\* CheckpointResult(phase, decision, user_feedback): __post_init__ fills
\* the empty timestamp.
CheckpointResult(phase, decision, user_feedback) ==
    [phase |-> phase, decision |-> decision, user_feedback |-> user_feedback,
     timestamp |-> Timestamp]

\* CheckpointManager.CHECKPOINTS: phase and option decisions by name.
CHECKPOINTS ==
    ("context" :>
        [phase |-> 0,
         options |-> <<Decision_CONTINUE, Decision_REQUEST_MODIFICATION,
                       Decision_REQUEST_MODIFICATION, Decision_ABORT>>]) @@
    ("plan_review" :>
        [phase |-> 1,
         options |-> <<Decision_CONTINUE_WITH_FEEDBACK, Decision_REQUEST_MODIFICATION,
                       Decision_CONTINUE_WITHOUT_FEEDBACK, Decision_ABORT>>]) @@
    ("code_review" :>
        [phase |-> 2,
         options |-> <<Decision_CONTINUE_WITH_FEEDBACK, Decision_REQUEST_MODIFICATION,
                       Decision_CONTINUE_WITHOUT_FEEDBACK, Decision_ABORT>>]) @@
    ("test_review" :>
        [phase |-> 3,
         options |-> <<Decision_CONTINUE, Decision_REQUEST_MODIFICATION,
                       Decision_SKIP, Decision_ABORT>>])

\* What an input handler does when invoked: it returns (decision, feedback)
\* or raises (input() at the end of the input raises EOFError, which the
\* default handler does not catch).  A handler supplied by the caller may
\* return any Decision.
HandlerBehaviours ==
    {[raised |-> "", decision |-> d, feedback |-> None] : d \in Decision}
    \cup {[raised |-> "", decision |-> Decision_REQUEST_MODIFICATION,
           feedback |-> Some("add tests")]}
    \cup {[raised |-> "EOFError", decision |-> Decision_ABORT, feedback |-> None]}

\* Variant: the result is returned but not recorded in the history.
run_checkpoint_unrecorded(auto_mode, history, checkpoint_name, handler) ==
    IF checkpoint_name \notin DOMAIN CHECKPOINTS
    THEN [raised |-> "KeyError", result |-> None, history |-> history, prompted |-> FALSE]
    ELSE LET checkpoint == CHECKPOINTS[checkpoint_name]
         IN  IF auto_mode
             THEN [raised |-> "",
                   result |-> Some(CheckpointResult(checkpoint.phase, Decision_CONTINUE, None)),
                   history |-> history, prompted |-> FALSE]
             ELSE IF handler.raised # ""
             THEN [raised |-> handler.raised, result |-> None,
                   history |-> history, prompted |-> TRUE]
             ELSE [raised |-> "",
                   result |-> Some(CheckpointResult(checkpoint.phase, handler.decision,
                                                    handler.feedback)),
                   history |-> history, prompted |-> TRUE]

\* CheckpointManager.run_checkpoint(checkpoint_name, display_content) on a
\* manager with this auto_mode and history, whose input handler behaves as
\* given: the exception raised ("" for none), the result returned, the
\* history afterwards, and whether the input handler was invoked.
run_checkpoint(auto_mode, history, checkpoint_name, handler) ==
    IF checkpoint_name \notin DOMAIN CHECKPOINTS
    THEN [raised |-> "KeyError", result |-> None, history |-> history, prompted |-> FALSE]
    ELSE LET checkpoint == CHECKPOINTS[checkpoint_name]
         IN  IF auto_mode
             THEN LET auto == CheckpointResult(checkpoint.phase, Decision_CONTINUE, None)
                  IN  [raised |-> "", result |-> Some(auto),
                       history |-> Append(history, auto), prompted |-> FALSE]
             ELSE IF handler.raised # ""
             THEN [raised |-> handler.raised, result |-> None,
                   history |-> history, prompted |-> TRUE]
             ELSE LET answered == CheckpointResult(checkpoint.phase, handler.decision,
                                                   handler.feedback)
                  IN  [raised |-> "", result |-> Some(answered),
                       history |-> Append(history, answered), prompted |-> TRUE]

\* The checkpoint names callers pass: the four defined ones and one that
\* CHECKPOINTS does not define.
CheckpointNames == DOMAIN CHECKPOINTS \cup {"deploy"}

\* CheckpointManager(input_handler, auto_mode).
CheckpointInit ==
    /\ k_auto_mode \in BOOLEAN
    /\ k_history = <<>>
    /\ k_prompts = 0
    /\ k_last = None

\* manager.run_checkpoint(checkpoint_name, display_content).
RunCheckpoint ==
    /\ Len(k_history) < MaxCheckpointCalls
    /\ k_prompts < MaxCheckpointCalls
    /\ \E checkpoint_name \in CheckpointNames, handler \in HandlerBehaviours :
         LET out == run_checkpoint(k_auto_mode, k_history, checkpoint_name, handler)
         IN  /\ k_history' = out.history
             /\ k_prompts' = IF out.prompted THEN k_prompts + 1 ELSE k_prompts
             /\ k_last' = Some([call |-> "run_checkpoint", name |-> checkpoint_name,
                                raised |-> out.raised, result |-> out.result])
    /\ UNCHANGED <<k_auto_mode, workflowVars, notWorkflowNorCheckpointVars>>

\* manager.clear_history().
ClearHistory ==
    /\ k_history # <<>>
    /\ k_history' = <<>>
    /\ k_last' = Some([call |-> "clear_history", name |-> "", raised |-> "",
                       result |-> None])
    /\ UNCHANGED <<k_auto_mode, k_prompts, workflowVars, notWorkflowNorCheckpointVars>>

CheckpointNext == RunCheckpoint \/ ClearHistory

CheckpointSpecInit == CheckpointInit /\ FanoutIdle /\ ScorerIdle /\ PairIdle /\ DebateIdle /\ LoopIdle /\ CliIdle /\ WorkflowIdle /\ ClientIdle /\ HistoryIdle /\ TimeoutIdle

CheckpointSpec == CheckpointSpecInit /\ [][CheckpointNext]_vars

\* C30: every run_checkpoint call that names a defined checkpoint and
\* returns appends exactly one CheckpointResult to the end of the manager's
\* history, the one it returns, carrying that checkpoint's phase number; in
\* auto mode its decision is CONTINUE and the input handler is not invoked.
\* (A call that raises appends nothing.)
C30_RunCheckpointAppendsOneResult ==
    [][(/\ k_last' # None
        /\ k_last'[1].call = "run_checkpoint"
        /\ <<k_history, k_prompts, k_last>>' # <<k_history, k_prompts, k_last>>) =>
          LET out == k_last'[1]
          IN  IF out.raised = ""
              THEN /\ out.name \in DOMAIN CHECKPOINTS
                   /\ k_history' = Append(k_history, out.result[1])
                   /\ out.result[1].phase = CHECKPOINTS[out.name].phase
                   /\ k_auto_mode =>
                          /\ out.result[1].decision = Decision_CONTINUE
                          /\ k_prompts' = k_prompts
                          /\ k_prompts = 0
              ELSE /\ k_history' = k_history
                   /\ ~k_auto_mode \/ out.name \notin DOMAIN CHECKPOINTS]_vars

\* C30 case: an auto-mode manager ran the context checkpoint and then the
\* plan_review checkpoint; its history holds phase 0 then phase 1, both
\* CONTINUE, and the input handler was never invoked.
C30_Witness ==
    /\ k_auto_mode
    /\ Len(k_history) = 2
    /\ k_history[1].phase = 0
    /\ k_history[2].phase = 1
    /\ k_history[2].decision = Decision_CONTINUE
    /\ k_prompts = 0
    /\ k_last # None
    /\ k_last[1].name = "plan_review"

\* ======================================================================
\* WorkflowEngine (core/workflow.py): the four-phase workflow.
\* ======================================================================

\* class Phase(Enum): the values.
Phase_CONTEXT == 0
Phase_PLAN == 1
Phase_CODE == 2
Phase_TEST == 3
Phase_DONE == 4

Phase == {Phase_CONTEXT, Phase_PLAN, Phase_CODE, Phase_TEST, Phase_DONE}

\* WorkflowState(session_id, started_at, current_phase, plan_path): the
\* other fields keep their defaults.
WorkflowState(session_id, started_at, current_phase, plan_path) ==
    [session_id |-> session_id, started_at |-> started_at,
     current_phase |-> current_phase, plan_path |-> plan_path,
     context_result |-> None, checkpoints |-> <<>>, plan_review |-> None,
     final_plan |-> None, code_changes |-> None, code_review |-> None,
     test_content |-> None, test_result |-> None]

\* str(uuid.uuid4())[:8]: the ids a new WorkflowState may draw.
SessionIds == {"a1b2c3d4", "e5f6a7b8"}

\* ContextCollector.collect(plan, detected): the plan and the files found.
ContextResult(plan_content) ==
    [plan_content |-> plan_content, context_files |-> <<"src/app.py">>]

\* One CheckpointResult as WorkflowState.to_dict writes it.
CheckpointDict(c) ==
    PyDict(<< <<PyStr("phase"), PyInt(c.phase)>>,
              <<PyStr("decision"), PyStr(c.decision)>>,
              <<PyStr("user_feedback"), PyOptional(c.user_feedback)>>,
              <<PyStr("timestamp"), PyStr(c.timestamp)>> >>)

\* WorkflowState.to_dict: asdict with the phase's value, the checkpoints
\* and the context result written out.
WorkflowState_to_dict(state) ==
    PyDict(<< <<PyStr("session_id"), PyStr(state.session_id)>>,
              <<PyStr("started_at"), PyStr(state.started_at)>>,
              <<PyStr("current_phase"), PyInt(state.current_phase)>>,
              <<PyStr("plan_path"), PyOptional(state.plan_path)>>,
              <<PyStr("context_result"),
                IF state.context_result = None THEN PyNone
                ELSE PyDict(<< <<PyStr("plan_content"),
                                 PyStr(state.context_result[1].plan_content)>>,
                               <<PyStr("context_files"),
                                 PyList([i \in 1..Len(state.context_result[1].context_files) |->
                                           PyStr(state.context_result[1].context_files[i])])>> >>)>>,
              <<PyStr("checkpoints"),
                PyList([i \in 1..Len(state.checkpoints) |->
                          CheckpointDict(state.checkpoints[i])])>>,
              <<PyStr("plan_review"), PyOptional(state.plan_review)>>,
              <<PyStr("final_plan"), PyOptional(state.final_plan)>>,
              <<PyStr("code_changes"), PyNone>>,
              <<PyStr("code_review"), PyNone>>,
              <<PyStr("test_content"), PyOptional(state.test_content)>>,
              <<PyStr("test_result"), PyNone>> >>)

\* Variant: the state is written as it was before the phase advanced.
_save_state_unadvanced(state) ==
    Some(JsonFile(dumps(WorkflowState_to_dict(
        [state EXCEPT !.current_phase = IF @ = Phase_CONTEXT THEN @ ELSE @ - 1]))))

\* WorkflowState.save / WorkflowEngine._save_state: the state file written.
_save_state(state) == Some(JsonFile(dumps(WorkflowState_to_dict(state))))

\* WorkflowState.load(path): the exception raised ("" for none) and the
\* state built, which carries the four fields read and defaults elsewhere.
WorkflowState_load(file) ==
    LET data == loads(file.json)
        missing == PyDict(<<>>)
        session_id == Get(data, "session_id", missing)
        started_at == Get(data, "started_at", missing)
        current_phase == Get(data, "current_phase", missing)
        plan_path == Get(data, "plan_path", PyNone)
    IN  IF ~IsA(data, "dict")
        THEN [raised |-> "TypeError", state |-> None]
        ELSE IF missing \in {session_id, started_at, current_phase}
        THEN [raised |-> "KeyError", state |-> None]
        ELSE IF ~(IsA(current_phase, "int") /\ current_phase.int \in Phase)
        THEN [raised |-> "ValueError", state |-> None]
        ELSE [raised |-> "",
              state |-> Some(WorkflowState(
                  IF IsA(session_id, "str") THEN session_id.str ELSE "",
                  IF IsA(started_at, "str") THEN started_at.str ELSE "",
                  current_phase.int,
                  IF IsA(plan_path, "str") THEN Some(plan_path.str) ELSE None))]

\* The plan files of the project: path and text.
PlanFileText == "plan from plan.md"
PlanPaths == {"plan.md", "missing.md"}

\* The start of WorkflowEngine.run (the plan is loaded): the exception
\* raised ("" for none) and the state afterwards.
LoadPlan(state, plan_path, plan_content) ==
    IF StrTruthy(plan_content)
    THEN [raised |-> "", state |-> [state EXCEPT !.final_plan = plan_content]]
    ELSE IF StrTruthy(plan_path)
    THEN LET named == [state EXCEPT !.plan_path = plan_path]
         IN  IF plan_path = Some("plan.md")
             THEN [raised |-> "", state |-> [named EXCEPT !.final_plan = Some(PlanFileText)]]
             ELSE [raised |-> "FileNotFoundError", state |-> named]
    ELSE [raised |-> "ValueError", state |-> state]

\* What critic_client.call does: it returns a response or raises.
CriticBehaviours ==
    {[raised |-> "", content |-> "critic response"],
     [raised |-> "OpenCodeError", content |-> ""]}

\* One entry of the engine's call history.
Called(call, phase) == [call |-> call, phase |-> phase]

\* The part of _phase_N before its checkpoint: the exception raised ("" for
\* none), the state afterwards and the critic calls made.
BeforeCheckpoint(state, critic) ==
    LET p == state.current_phase IN
    IF p = Phase_CONTEXT
    THEN [raised |-> "",
          state |-> [state EXCEPT !.context_result =
                                      Some(ContextResult(state.final_plan[1]))],
          called |-> <<>>]
    ELSE IF p = Phase_CODE
    THEN [raised |-> "", state |-> state, called |-> <<>>]
    ELSE IF state.context_result = None
    THEN [raised |-> "AttributeError", state |-> state, called |-> <<>>]
    ELSE IF critic.raised # ""
    THEN [raised |-> critic.raised, state |-> state, called |-> <<Called("critic", p)>>]
    ELSE [raised |-> "",
          state |-> IF p = Phase_PLAN
                    THEN [state EXCEPT !.plan_review = Some(critic.content)]
                    ELSE [state EXCEPT !.test_content = Some(critic.content)],
          called |-> <<Called("critic", p)>>]

\* The checkpoint each phase runs.
CheckpointOf(p) ==
    IF p = Phase_CONTEXT THEN "context"
    ELSE IF p = Phase_PLAN THEN "plan_review"
    ELSE IF p = Phase_CODE THEN "code_review"
    ELSE "test_review"

\* Variant: SKIP stops the workflow as ABORT does.
AbortsAlsoOnSkip(decision) == decision \in {Decision_ABORT, Decision_SKIP}

\* Variant: no decision stops the workflow.
AbortsNever(decision) == FALSE

\* result.decision == Decision.ABORT: _phase_N returns False.
Aborts(decision) == decision = Decision_ABORT

\* WorkflowEngine(project_root, critic_client, checkpoint_manager) in a
\* project without a state file.
WorkflowInit ==
    /\ w_pc = "new"
    /\ \E id \in SessionIds : w_state = WorkflowState(id, Timestamp, Phase_CONTEXT, None)
    /\ w_file = None
    /\ w_trace = <<>>
    /\ w_last = [entry |-> "", raised |-> "", interrupted |-> FALSE]
    /\ CheckpointInit

\* run / resume up to the first phase: the plan is loaded and
\* current_phase set; an exception leaves run.
Enter(entry, state, plan_path, plan_content, start_phase) ==
    LET loaded == LoadPlan(state, plan_path, plan_content) IN
    /\ w_last' = [entry |-> entry, raised |-> loaded.raised, interrupted |-> FALSE]
    /\ IF loaded.raised # ""
       THEN /\ w_pc' = "raised"
            /\ w_state' = loaded.state
       ELSE /\ w_pc' = IF start_phase = Phase_DONE THEN "returned" ELSE "running"
            /\ w_state' = [loaded.state EXCEPT !.current_phase = start_phase]

\* engine.run(plan_path, plan_content, context_paths, start_phase) on the
\* engine constructed.
Run ==
    /\ w_pc = "new"
    /\ \E plan_path \in {None} \cup {Some(p) : p \in PlanPaths},
          plan_content \in {None, Some(""), Some("inline plan")},
          start_phase \in Phase :
         Enter("run", w_state, plan_path, plan_content, start_phase)
    /\ UNCHANGED <<w_file, w_trace, checkpointVars, notWorkflowNorCheckpointVars>>

\* `cli.py --resume`: a process constructs an engine (with its state and
\* checkpoint manager) on the project and calls engine.resume().
Resume ==
    /\ w_pc \in {"new", "returned", "raised"}
    /\ \E id \in SessionIds :
         LET constructed == WorkflowState(id, Timestamp, Phase_CONTEXT, None) IN
         IF w_file = None
         THEN /\ w_pc' = "raised"
              /\ w_state' = constructed
              /\ w_last' = [entry |-> "resume", raised |-> "FileNotFoundError",
                            interrupted |-> FALSE]
         ELSE LET loaded == WorkflowState_load(w_file[1]) IN
              IF loaded.raised # ""
              THEN /\ w_pc' = "raised"
                   /\ w_state' = constructed
                   /\ w_last' = [entry |-> "resume", raised |-> loaded.raised,
                                 interrupted |-> FALSE]
              ELSE Enter("resume", loaded.state[1], None, loaded.state[1].final_plan,
                         loaded.state[1].current_phase)
    /\ w_trace' = <<>>
    /\ k_auto_mode' \in BOOLEAN
    /\ k_history' = <<>>
    /\ k_prompts' = 0
    /\ k_last' = None
    /\ UNCHANGED <<w_file, notWorkflowNorCheckpointVars>>

\* One phase of run, from `if self.state.current_phase == p` to the next
\* such test: _phase_N (critic call, checkpoint), then either the return
\* on ABORT or the advance to the next phase and _save_state; after TEST
\* run returns.
RunPhase(p) ==
    /\ \E critic \in CriticBehaviours, handler \in HandlerBehaviours :
         LET before == BeforeCheckpoint(w_state, critic) IN
         IF before.raised # ""
         THEN /\ w_pc' = "raised"
              /\ w_state' = before.state
              /\ w_trace' = w_trace \o before.called
              /\ w_last' = [w_last EXCEPT !.raised = before.raised]
              /\ UNCHANGED <<w_file, checkpointVars>>
         ELSE LET out == run_checkpoint(k_auto_mode, k_history, CheckpointOf(p), handler) IN
              /\ k_history' = out.history
              /\ k_prompts' = IF out.prompted THEN k_prompts + 1 ELSE k_prompts
              /\ k_last' = Some([call |-> "run_checkpoint", name |-> CheckpointOf(p),
                                 raised |-> out.raised, result |-> out.result])
              /\ UNCHANGED k_auto_mode
              /\ w_trace' = (w_trace \o before.called) \o <<Called("checkpoint", p)>>
              /\ IF out.raised # ""
                 THEN /\ w_pc' = "raised"
                      /\ w_state' = before.state
                      /\ w_last' = [w_last EXCEPT !.raised = out.raised]
                      /\ UNCHANGED w_file
                 ELSE LET recorded == [before.state EXCEPT
                                          !.checkpoints = Append(@, out.result[1])]
                          advanced == [recorded EXCEPT !.current_phase = p + 1]
                      IN  IF Aborts(out.result[1].decision)
                          THEN /\ w_pc' = "returned"
                               /\ w_state' = recorded
                               /\ UNCHANGED <<w_file, w_last>>
                          ELSE /\ w_pc' = IF p + 1 = Phase_DONE THEN "returned"
                                                                ELSE "running"
                               /\ w_state' = advanced
                               /\ w_file' = _save_state(advanced)
                               /\ UNCHANGED w_last
    /\ UNCHANGED notWorkflowNorCheckpointVars

\* Phase 0: _phase_0_context.
PhaseContext ==
    /\ w_pc = "running"
    /\ w_state.current_phase = Phase_CONTEXT
    /\ RunPhase(Phase_CONTEXT)

\* Phase 1: _phase_1_plan.
PhasePlan ==
    /\ w_pc = "running"
    /\ w_state.current_phase = Phase_PLAN
    /\ RunPhase(Phase_PLAN)

\* Phase 2: _phase_2_code.
PhaseCode ==
    /\ w_pc = "running"
    /\ w_state.current_phase = Phase_CODE
    /\ RunPhase(Phase_CODE)

\* Phase 3: _phase_3_test.
PhaseTest ==
    /\ w_pc = "running"
    /\ w_state.current_phase = Phase_TEST
    /\ RunPhase(Phase_TEST)

\* KeyboardInterrupt inside run's try block: before the current phase has
\* done anything, or while its checkpoint waits for input; the state is
\* saved and run returns.
Interrupt ==
    /\ w_pc = "running"
    /\ \E critic \in CriticBehaviours, waiting \in BOOLEAN :
         LET before == BeforeCheckpoint(w_state, critic)
             state == IF waiting THEN before.state ELSE w_state
         IN  /\ waiting => before.raised = "" /\ ~k_auto_mode
             /\ w_state' = state
             /\ w_trace' = IF waiting THEN w_trace \o before.called ELSE w_trace
             /\ w_file' = _save_state(state)
    /\ w_pc' = "returned"
    /\ w_last' = [w_last EXCEPT !.interrupted = TRUE]
    /\ UNCHANGED <<checkpointVars, notWorkflowNorCheckpointVars>>

WorkflowNext ==
    \/ Run
    \/ Resume
    \/ PhaseContext
    \/ PhasePlan
    \/ PhaseCode
    \/ PhaseTest
    \/ Interrupt

WorkflowSpecInit == WorkflowInit /\ FanoutIdle /\ ScorerIdle /\ PairIdle /\ DebateIdle /\ LoopIdle /\ CliIdle /\ ClientIdle /\ HistoryIdle /\ TimeoutIdle

WorkflowSpec == WorkflowSpecInit /\ [][WorkflowNext]_vars

\* The last checkpoint result the engine recorded.
LastCheckpoint == w_state.checkpoints[Len(w_state.checkpoints)]

\* C26: when the checkpoint of phase p returns ABORT, run returns with
\* current_phase still p, and neither a checkpoint nor a critic call of a
\* later phase has been made: the aborted checkpoint is the last call.
C26_AbortStopsAtItsPhase ==
    (/\ w_pc \in {"running", "returned", "raised"}
     /\ w_state.checkpoints # <<>>
     /\ LastCheckpoint.decision = Decision_ABORT) =>
        /\ w_pc = "returned"
        /\ w_state.current_phase = LastCheckpoint.phase
        /\ \A i \in 1..Len(w_trace) : w_trace[i].phase <= LastCheckpoint.phase
        /\ w_trace[Len(w_trace)] = Called("checkpoint", LastCheckpoint.phase)
        /\ \A i \in 1..(Len(w_state.checkpoints) - 1) :
               w_state.checkpoints[i].decision # Decision_ABORT

\* C26 case: the context checkpoint let the workflow continue, the critic
\* reviewed the plan, and the plan_review checkpoint returned ABORT: run
\* returned at phase PLAN with the state file of the first phase.
C26_Witness ==
    /\ w_pc = "returned"
    /\ Len(w_state.checkpoints) = 2
    /\ LastCheckpoint.decision = Decision_ABORT
    /\ LastCheckpoint.phase = Phase_PLAN
    /\ w_state.current_phase = Phase_PLAN
    /\ w_trace = <<Called("checkpoint", Phase_CONTEXT), Called("critic", Phase_PLAN),
                   Called("checkpoint", Phase_PLAN)>>
    /\ w_file = _save_state([w_state EXCEPT !.checkpoints = SubSeq(@, 1, 1),
                                            !.plan_review = None])

\* The phase the state file was saved at (the file is one _save_state wrote).
SavedPhase == loads(w_file[1].json).dict[3][2].int

\* C27: after a workflow stopped with a saved state at phase p, resume()
\* reloads that state and continues from phase p instead of failing: it
\* raises nothing and the engine is at phase p of the saved session, with
\* the plan it needs.
C27_ResumeContinuesFromSavedPhase ==
    (w_last.entry = "resume" /\ w_file # None /\ w_trace = <<>>) =>
        /\ w_last.raised = ""
        /\ w_pc \in {"running", "returned"}
        /\ w_state.current_phase = SavedPhase
        /\ w_state.final_plan # None

\* The phase the current run was entered at: nothing is called before the
\* first phase, and every phase begins with a call.
StartPhase == IF w_trace = <<>> THEN w_state.current_phase ELSE w_trace[1].phase

\* The calls of a complete workflow, in order.
FullTrace ==
    <<Called("checkpoint", Phase_CONTEXT),
      Called("critic", Phase_PLAN), Called("checkpoint", Phase_PLAN),
      Called("checkpoint", Phase_CODE),
      Called("critic", Phase_TEST), Called("checkpoint", Phase_TEST)>>

\* a is an initial part of b.
IsPrefix(a, b) == Len(a) <= Len(b) /\ SubSeq(b, 1, Len(a)) = a

\* The current_phase a state file records.
SavedPhaseOf(file) == loads(file[1].json).dict[3][2].int

\* No checkpoint of the run returned ABORT.
NoAbort(state) ==
    \A i \in 1..Len(state.checkpoints) : state.checkpoints[i].decision # Decision_ABORT

\* C31: in a run started at CONTEXT the phases run in the order CONTEXT,
\* PLAN, CODE, TEST, none twice; current_phase never decreases and moves
\* one phase at a time; after each completed phase the state file records
\* the next phase as current_phase; and a run that returns without an
\* abort (and without interruption) is at DONE, having run every phase once.
C31_PhasesRunInOrderAndAreSaved ==
    [][(w_pc = "running" /\ w_last.entry = "run" /\ StartPhase = Phase_CONTEXT) =>
          /\ IsPrefix(w_trace', FullTrace)
          /\ w_state'.current_phase \in
                 {w_state.current_phase, w_state.current_phase + 1}
          /\ w_state'.current_phase = w_state.current_phase + 1 =>
                 /\ w_file' # None
                 /\ SavedPhaseOf(w_file') = w_state'.current_phase
                 /\ w_trace'[Len(w_trace')] = Called("checkpoint", w_state.current_phase)
          /\ (w_pc' = "returned" /\ NoAbort(w_state') /\ ~w_last'.interrupted) =>
                 /\ w_state'.current_phase = Phase_DONE
                 /\ w_trace' = FullTrace]_vars

\* C31 case: a run started at CONTEXT went through the four phases without
\* abort and returned at DONE; the state file records DONE.
C31_Witness ==
    /\ w_pc = "returned"
    /\ w_last.entry = "run"
    /\ w_state.current_phase = Phase_DONE
    /\ w_trace = FullTrace
    /\ Len(w_state.checkpoints) = 4
    /\ w_file = _save_state(w_state)

\* C36: a checkpoint decision other than ABORT advances the workflow to
\* the next phase (ABORT leaves it at its phase), and no decision makes a
\* phase run again or sends the workflow back: the checkpoints recorded in
\* a run have strictly increasing phases.
C36_NonAbortDecisionsAdvance ==
    [][(w_pc = "running" /\ Len(w_state'.checkpoints) = Len(w_state.checkpoints) + 1) =>
          LET made == w_state'.checkpoints[Len(w_state'.checkpoints)]
          IN  /\ made.phase = w_state.current_phase
              /\ made.decision \in Decision
              /\ w_state'.current_phase =
                     IF made.decision = Decision_ABORT THEN w_state.current_phase
                     ELSE w_state.current_phase + 1
              /\ \A i \in 1..Len(w_state.checkpoints) :
                     w_state.checkpoints[i].phase < made.phase]_vars

\* C36 case: the four checkpoints answered REQUEST_MODIFICATION,
\* CONTINUE_WITHOUT_FEEDBACK, CONTINUE_WITH_FEEDBACK and SKIP, and the
\* workflow is at DONE.
C36_Witness ==
    /\ w_pc = "returned"
    /\ w_state.current_phase = Phase_DONE
    /\ Len(w_state.checkpoints) = 4
    /\ w_state.checkpoints[1].decision = Decision_REQUEST_MODIFICATION
    /\ w_state.checkpoints[2].decision = Decision_CONTINUE_WITHOUT_FEEDBACK
    /\ w_state.checkpoints[3].decision = Decision_CONTINUE_WITH_FEEDBACK
    /\ w_state.checkpoints[4].decision = Decision_SKIP

\* C37: a run called with a plan and start_phase PLAN, CODE or TEST, in
\* which no checkpoint aborts (and neither the critic nor the input handler
\* fails, and no interrupt arrives), ends at DONE without error, having
\* run no phase before its start phase.
C37_RunFromLaterPhaseCompletes ==
    (/\ w_pc \in {"returned", "raised"}
     /\ w_last.entry = "run"
     /\ StartPhase \in {Phase_PLAN, Phase_CODE, Phase_TEST}
     /\ w_state.final_plan # None
     /\ NoAbort(w_state)
     /\ ~w_last.interrupted
     /\ w_last.raised \notin {"OpenCodeError", "EOFError"}) =>
        /\ w_pc = "returned"
        /\ w_last.raised = ""
        /\ w_state.current_phase = Phase_DONE
        /\ \A i \in 1..Len(w_trace) : w_trace[i].phase >= StartPhase

\* ======================================================================
\* Model clients (core/models.py): the retried CLI call.
\* ======================================================================

\* The largest max_retries a client is constructed with.
MaxRetries == 3

\* The client classes, with the name of the CLI each runs, the model name
\* it reports and the error it raises.
ClientClasses ==
    {[class |-> "OpenCodeClient", cli |-> "OpenCode", name |-> "opencode-gpt",
      error |-> "OpenCodeError"],
     [class |-> "ClaudeClient", cli |-> "Claude", name |-> "claude-sonnet",
      error |-> "ClaudeError"],
     [class |-> "CodexClient", cli |-> "Codex", name |-> "codex-gpt",
      error |-> "CodexError"]}

\* Whitespace characters of an output text (a text is a sequence of
\* one-character strings).
Whitespace == {" ", "\n", "\t"}

\* str.strip(): the text without its leading and trailing whitespace.
RECURSIVE strip(_)
strip(text) ==
    IF text = <<>> THEN <<>>
    ELSE IF text[1] \in Whitespace THEN strip(Tail(text))
    ELSE IF text[Len(text)] \in Whitespace THEN strip(SubSeq(text, 1, Len(text) - 1))
    ELSE text

\* What one subprocess.run of the CLI does: it exits (return code, output
\* and error text), runs into the timeout, or the executable is missing.
SubprocessOutcomes ==
    {[kind |-> "exit", returncode |-> 0, stdout |-> out, stderr |-> ""] :
        out \in {<<"o", "k">>, <<" ", "o", " ", "k", "\n">>}}
    \cup {[kind |-> "exit", returncode |-> 1, stdout |-> <<>>, stderr |-> "error 1"],
          [kind |-> "TimeoutExpired", returncode |-> 0, stdout |-> <<>>, stderr |-> ""],
          [kind |-> "FileNotFoundError", returncode |-> 0, stdout |-> <<>>, stderr |-> ""]}

\* An attempt that failed the way call retries: a non-zero exit or a timeout.
Failed(run) ==
    \/ run.kind = "exit" /\ run.returncode # 0
    \/ run.kind = "TimeoutExpired"

\* The client's typed error with its message.
ClientError(client, message) == [type |-> client.class.error, message |-> message]

\* Variant: one more attempt than max_retries.
AttemptsLeftOneMore(made, max_retries) == made <= max_retries

\* for attempt in range(self.max_retries): another attempt follows.
AttemptsLeft(made, max_retries) == made < max_retries

\* OpenCodeClient / ClaudeClient / CodexClient (timeout, max_retries).
ClientInit ==
    /\ m_pc = "ready"
    /\ \E class \in ClientClasses, max_retries \in 0..MaxRetries :
         m_client = [class |-> class, timeout |-> DEFAULT_TIMEOUT,
                     max_retries |-> max_retries]
    /\ m_runs = <<>>
    /\ m_last_error = None
    /\ m_outcome = None

\* client.call(prompt, context) up to the loop: last_error = None.
Call ==
    /\ m_pc = "ready"
    /\ m_pc' = "calling"
    /\ m_last_error' = None
    /\ UNCHANGED <<m_client, m_runs, m_outcome, notClientVars>>

\* One pass of the loop body: subprocess.run, then the return on exit code
\* 0, or last_error and `continue` on a non-zero exit or a timeout; any
\* other exception leaves call.
Attempt ==
    /\ m_pc = "calling"
    /\ AttemptsLeft(Len(m_runs), m_client.max_retries)
    /\ \E run \in SubprocessOutcomes :
         /\ m_runs' = Append(m_runs, run)
         /\ IF run.kind = "exit" /\ run.returncode = 0
            THEN /\ m_pc' = "returned"
                 /\ m_outcome' = Some([raised |-> None,
                                       response |-> Some(ModelResponse(strip(run.stdout),
                                                                      m_client.class.name))])
                 /\ UNCHANGED m_last_error
            ELSE IF run.kind = "exit"
            THEN /\ m_pc' = "calling"
                 /\ m_last_error' = Some(ClientError(m_client,
                                        <<m_client.class.cli, " failed: ", run.stderr>>))
                 /\ UNCHANGED m_outcome
            ELSE IF run.kind = "TimeoutExpired"
            THEN /\ m_pc' = "calling"
                 /\ m_last_error' = Some(ClientError(m_client,
                                        <<m_client.class.cli, " timed out after ",
                                          Str(m_client.timeout), "s">>))
                 /\ UNCHANGED m_outcome
            ELSE /\ m_pc' = "raised"
                 /\ m_outcome' = Some([raised |-> Some([type |-> run.kind, message |-> <<>>]),
                                       response |-> None])
                 /\ UNCHANGED m_last_error
    /\ UNCHANGED <<m_client, notClientVars>>

\* The loop is over: raise last_error or <Error>("Unknown error").
Exhausted ==
    /\ m_pc = "calling"
    /\ ~AttemptsLeft(Len(m_runs), m_client.max_retries)
    /\ m_pc' = "raised"
    /\ m_outcome' = Some([raised |-> IF m_last_error # None THEN m_last_error
                                     ELSE Some(ClientError(m_client, <<"Unknown error">>)),
                          response |-> None])
    /\ UNCHANGED <<m_client, m_runs, m_last_error, notClientVars>>

ClientNext == Call \/ Attempt \/ Exhausted

ClientSpecInit == ClientInit /\ FanoutIdle /\ ScorerIdle /\ PairIdle /\ DebateIdle /\ LoopIdle /\ CliIdle /\ CheckpointIdle /\ WorkflowIdle /\ HistoryIdle /\ TimeoutIdle

ClientSpec == ClientSpecInit /\ [][ClientNext]_vars

\* The attempts of the call so far that were successful.
Successes == {i \in 1..Len(m_runs) : m_runs[i].kind = "exit" /\ m_runs[i].returncode = 0}

\* C28: a call makes at most max_retries attempts; it returns the stripped
\* output of the first successful attempt, which is its last attempt; and
\* it raises the client's typed error exactly when max_retries attempts
\* were made and every one failed by a non-zero exit or a timeout.
C28_CallMakesAtMostMaxRetriesAttempts ==
    /\ Len(m_runs) <= m_client.max_retries
    /\ Successes \subseteq {Len(m_runs)}
    /\ m_pc = "returned" <=> Successes # {}
    /\ m_pc = "returned" =>
           /\ \A i \in 1..(Len(m_runs) - 1) : Failed(m_runs[i])
           /\ m_outcome = Some([raised |-> None,
                                response |-> Some(ModelResponse(
                                    strip(m_runs[Len(m_runs)].stdout),
                                    m_client.class.name))])
    /\ (m_pc = "raised" /\ m_outcome[1].raised[1].type = m_client.class.error)
           <=> (/\ m_pc \notin {"ready", "calling"}
                /\ Len(m_runs) = m_client.max_retries
                /\ \A i \in 1..Len(m_runs) : Failed(m_runs[i]))

\* C28 case: a client with max_retries = 3 failed by exit code, then by
\* timeout, and the third attempt succeeded: its output is returned.
C28_Witness ==
    /\ m_pc = "returned"
    /\ m_client.max_retries = 3
    /\ Len(m_runs) = 3
    /\ m_runs[1].returncode = 1
    /\ m_runs[2].kind = "TimeoutExpired"
    /\ m_outcome[1].response[1].content = <<"o", " ", "k">>

\* C28 case: all three attempts of a client with max_retries = 3 failed,
\* the last by timeout: the typed error of the last failure is raised.
C28_WitnessAllFail ==
    /\ m_pc = "raised"
    /\ m_client.class.class = "OpenCodeClient"
    /\ m_client.max_retries = 3
    /\ Len(m_runs) = 3
    /\ m_outcome[1].raised[1] =
           [type |-> "OpenCodeError",
            message |-> <<"OpenCode", " timed out after ", "300", "s">>]

\* ======================================================================
\* HistoryManager (core/history.py): session files and their index.
\* ======================================================================

\* SessionRecord(session_id, timestamp, review_type, plan_path, rounds,
\* final_decision).
SessionRecord(session_id, timestamp, review_type, plan_path, record_rounds, decision) ==
    [session_id |-> session_id, timestamp |-> timestamp, review_type |-> review_type,
     plan_path |-> plan_path, rounds |-> record_rounds, final_decision |-> decision]

\* The timestamps of the sessions, oldest first (ISO texts compare as
\* their times do).
Timestamps == <<"2026-01-19T14:30:00.000000", "2026-01-20T09:00:00.000000">>

\* a < b for two timestamps.
Earlier(a, b) ==
    \E i, j \in 1..Len(Timestamps) : Timestamps[i] = a /\ Timestamps[j] = b /\ i < j

\* SessionRecord.create(plan_path, review_type, rounds, final_decision) at
\* a given time: the id is the time and the review type.
SessionRecord_create(now, plan_path, review_type, record_rounds, final_decision) ==
    SessionRecord(IF now = Timestamps[1]
                  THEN "20260119_143000_000000_" \o review_type
                  ELSE "20260120_090000_000000_" \o review_type,
                  now, review_type, plan_path, record_rounds, final_decision)

\* The rounds a record may carry: none, one or two round dicts.
HistoryRounds ==
    LET round(n) == PyDict(<< <<PyStr("round_number"), PyInt(n)>> >>)
    IN  {<<>>, <<round(1)>>, <<round(1), round(2)>>}

\* The records the callers save: sessions created at the first time (a
\* plan review) and at the second (a plan and a code review), later
\* changed in their rounds and final decision.
HistoryRecords ==
    {SessionRecord_create(Timestamps[1], "plan.md", "plan", rs, fd) :
        rs \in HistoryRounds, fd \in {None, Some("satisfied")}}
    \cup {SessionRecord_create(Timestamps[2], "plan.md", type, rs, fd) :
            type \in {"plan", "code"}, rs \in HistoryRounds,
            fd \in {None, Some("satisfied")}}

\* The session ids callers pass to delete: those of the records and one
\* that was never saved.
HistoryIds == {r.session_id : r \in HistoryRecords} \cup {"nonexistent_session_id"}

\* SessionRecord.to_dict: asdict.
SessionRecord_to_dict(record) ==
    PyDict(<< <<PyStr("session_id"), PyStr(record.session_id)>>,
              <<PyStr("timestamp"), PyStr(record.timestamp)>>,
              <<PyStr("review_type"), PyStr(record.review_type)>>,
              <<PyStr("plan_path"), PyStr(record.plan_path)>>,
              <<PyStr("rounds"), PyList(record.rounds)>>,
              <<PyStr("final_decision"), PyOptional(record.final_decision)>> >>)

\* The index entry _update_index builds for a record.
IndexEntryDict(record) ==
    PyDict(<< <<PyStr("session_id"), PyStr(record.session_id)>>,
              <<PyStr("timestamp"), PyStr(record.timestamp)>>,
              <<PyStr("review_type"), PyStr(record.review_type)>>,
              <<PyStr("plan_path"), PyStr(record.plan_path)>>,
              <<PyStr("round_count"), PyInt(Len(record.rounds))>>,
              <<PyStr("final_decision"), PyOptional(record.final_decision)>> >>)

\* sessions.sort(key=timestamp, reverse=True): newest first; entries with
\* equal timestamps keep their order (the sort is stable).
RECURSIVE SortNewestFirst(_)
SortNewestFirst(sessions) ==
    IF sessions = <<>> THEN <<>>
    ELSE LET sorted == SortNewestFirst(SubSeq(sessions, 1, Len(sessions) - 1))
             x == sessions[Len(sessions)]
             key(entry) == Get(entry, "timestamp", PyNone).str
             ahead == {i \in 1..Len(sorted) : ~Earlier(key(sorted[i]), key(x))}
             n == IF ahead = {} THEN 0 ELSE CHOOSE i \in ahead : \A j \in ahead : j <= i
         IN  SubSeq(sorted, 1, n) \o <<x>> \o SubSeq(sorted, n + 1, Len(sorted))

\* The index data _update_index starts from: the file's JSON, or an empty
\* index when there is no file or it is not JSON.
IndexData(index) ==
    IF index = None \/ ~IsA(index[1], "json")
    THEN PyDict(<< <<PyStr("sessions"), PyList(<<>>)>> >>)
    ELSE loads(index[1].json)

\* [s for s in data["sessions"] if s["session_id"] != session_id]
WithoutSession(data, session_id) ==
    LET other(entry) == Get(entry, "session_id", PyNone) # PyStr(session_id)
    IN  SelectSeq(Get(data, "sessions", PyNone).list, other)

\* data["sessions"] = sessions, written back as JSON.
IndexFile(data, sessions) ==
    Some(JsonFile(dumps(PyDict([i \in 1..Len(data.dict) |->
        IF data.dict[i][1] = PyStr("sessions")
        THEN <<PyStr("sessions"), PyList(sessions)>>
        ELSE data.dict[i]]))))

\* Variant: the entry of the same session id is not removed first.
_update_index_keeping_old(index, record) ==
    LET data == IndexData(index)
    IN  IndexFile(data, SortNewestFirst(Append(Get(data, "sessions", PyNone).list,
                                               IndexEntryDict(record))))

\* HistoryManager._update_index(record): the index file afterwards.
_update_index(index, record) ==
    LET data == IndexData(index)
        sessions == WithoutSession(data, record.session_id)
    IN  IndexFile(data, SortNewestFirst(Append(sessions, IndexEntryDict(record))))

\* HistoryManager._remove_from_index(session_id): the index file afterwards.
_remove_from_index(index, session_id) ==
    IF index = None \/ ~IsA(index[1], "json") THEN index
    ELSE LET data == loads(index[1].json)
         IN  IndexFile(data, WithoutSession(data, session_id))

\* HistoryManager(project_dir) on a project without a history directory.
HistoryInit ==
    /\ h_files = <<>>
    /\ h_index = None
    /\ h_latest = <<>>
    /\ h_last = None

\* f with x mapped to v.
Put(f, x, v) == [y \in DOMAIN f \cup {x} |-> IF y = x THEN v ELSE f[y]]

\* f without x.
Drop(f, x) == [y \in DOMAIN f \ {x} |-> f[y]]

\* manager.save(record).
HistorySave ==
    \E record \in HistoryRecords :
        /\ h_files' = Put(h_files, record.session_id,
                          JsonFile(dumps(SessionRecord_to_dict(record))))
        /\ h_index' = _update_index(h_index, record)
        /\ h_latest' = Put(h_latest, record.session_id, record)
        /\ h_last' = Some([call |-> "save", session_id |-> record.session_id,
                           returned |-> TRUE])
        /\ UNCHANGED notHistoryVars

\* manager.delete(session_id).
HistoryDelete ==
    \E session_id \in HistoryIds :
        /\ IF session_id \notin DOMAIN h_files
           THEN /\ h_last' = Some([call |-> "delete", session_id |-> session_id,
                                   returned |-> FALSE])
                /\ UNCHANGED <<h_files, h_index, h_latest>>
           ELSE /\ h_files' = Drop(h_files, session_id)
                /\ h_index' = _remove_from_index(h_index, session_id)
                /\ h_latest' = Drop(h_latest, session_id)
                /\ h_last' = Some([call |-> "delete", session_id |-> session_id,
                                   returned |-> TRUE])
        /\ UNCHANGED notHistoryVars

HistoryNext == HistorySave \/ HistoryDelete

HistorySpecInit == HistoryInit /\ FanoutIdle /\ ScorerIdle /\ PairIdle /\ DebateIdle /\ LoopIdle /\ CliIdle /\ CheckpointIdle /\ WorkflowIdle /\ ClientIdle /\ TimeoutIdle

HistorySpec == HistorySpecInit /\ [][HistoryNext]_vars

\* The entries of an index file, as read back from it.
IndexEntries(index) == IF index = None THEN <<>> ELSE loads(index[1].json).dict[1][2].list

\* The entries of the index file.
IndexSessions == IndexEntries(h_index)

\* The session id of an index entry.
EntryId(entry) == Get(entry, "session_id", PyNone).str

\* The index has exactly one entry per session file, each with the
\* round_count and final_decision of the session's most recent save, which
\* is what the session file holds.
IndexMatches(index, files, latest) ==
    LET sessions == IndexEntries(index) IN
    /\ {EntryId(sessions[i]) : i \in 1..Len(sessions)} = DOMAIN files
    /\ \A i, j \in 1..Len(sessions) :
           EntryId(sessions[i]) = EntryId(sessions[j]) => i = j
    /\ \A i \in 1..Len(sessions) :
           LET entry == sessions[i]
               saved == latest[EntryId(entry)]
           IN  /\ Get(entry, "round_count", PyNone) = PyInt(Len(saved.rounds))
               /\ Get(entry, "final_decision", PyStr("missing")) =
                      PyOptional(saved.final_decision)
               /\ files[EntryId(entry)] = JsonFile(dumps(SessionRecord_to_dict(saved)))

\* C29: after any sequence of save and delete calls the index holds exactly
\* one entry per stored session file (the same session ids, none twice),
\* and each entry's round_count and final_decision are those of the most
\* recent save of its session; a delete of an id without a session file
\* returns false and changes neither the files nor the index.
C29_IndexMatchesSessionFiles ==
    [][/\ IndexMatches(h_index', h_files', h_latest')
       /\ (h_last' # None /\ h_last'[1].call = "delete") =>
              /\ h_last'[1].returned <=> h_last'[1].session_id \in DOMAIN h_files
              /\ ~h_last'[1].returned => UNCHANGED <<h_files, h_index>>]_vars

\* C29 case: two sessions are stored, the older one saved with two rounds
\* and the decision "satisfied"; a third session was saved and has just
\* been deleted: the index has one entry for each stored session, newest
\* first, and the older session's entry has round_count 2.
C29_Witness ==
    /\ Len(IndexSessions) = 2
    /\ DOMAIN h_files = {"20260119_143000_000000_plan", "20260120_090000_000000_code"}
    /\ EntryId(IndexSessions[2]) = "20260119_143000_000000_plan"
    /\ Get(IndexSessions[2], "round_count", PyNone) = PyInt(2)
    /\ Get(IndexSessions[2], "final_decision", PyNone) = PyStr("satisfied")
    /\ h_last = Some([call |-> "delete", session_id |-> "20260120_090000_000000_plan",
                      returned |-> TRUE])

====
